---- MODULE Spec2Model ----
(***************************************************************************)
(* Value ledger of TrustNet: the Move modules employee_wallet,             *)
(* payroll_distributor, privacy_pool and organization_registry.            *)
(*                                                                         *)
(* Every entry function is one action.  A Move transaction that aborts is  *)
(* rolled back as a whole, so a handler is modelled by an operator that    *)
(* walks through the asserts of the function in source order and returns   *)
(* either the abort code together with the untouched objects, or "ok"      *)
(* together with the objects as the function leaves them; an aborted call   *)
(* is a step that changes nothing.  Timestamps (clock_ms) are only copied  *)
(* into events and created_at fields and are left out.  coinsIn / coinsOut *)
(* are history variables: the Coin<SUI> values handed to the modules and   *)
(* the ones handed back.  batchHist and poolHist are history variables     *)
(* too: what was paid into and out of each batch, and how many calls of    *)
(* the pool succeeded.                                                     *)
(***************************************************************************)
EXTENDS Integers, Sequences, FiniteSets, TLC

VARIABLES wallets, batches, pool, registry, organizations, coinsIn, coinsOut,
          batchHist, poolHist

vars ==
    <<wallets, batches, pool, registry, organizations, coinsIn, coinsOut,
      batchHist, poolHist>>

\* ---------------------------------------------------------------- bounds
\* coins handed to the ledger over a whole run
MaxCoinsIn == 3
\* cap of the cumulative u64 counters total_deposited / total_withdrawn
MaxTotal == 3

\* object ids of the wallets and batches that can be created
WalletIds == {1, 2}
BatchIds == {1, 2}

Addr == {"e1", "e2"}
Admins == {"admin"}
Orgs == {"o1"}
Amounts == {0, 1, 2}
Commitments == {"c1", "c2", "c3"}
Nullifiers == {"n1", "n2", "n3"}
Proofs == {"p1", "p2"}

\* ------------------------------------------------------------ helpers
RECURSIVE SumOver(_, _)
SumOver(f, S) ==
    IF S = {} THEN 0
    ELSE LET x == CHOOSE y \in S : TRUE IN f[x] + SumOver(f, S \ {x})

\* sui::table / sui::vec_map with no entries
EmptyMap == [x \in {} |-> 0]

\* The counter map f with d added to the count of k (0 where f has no k).
Bump(f, k, d) ==
    [x \in DOMAIN f \cup {k} |->
        (IF x \in DOMAIN f THEN f[x] ELSE 0) + (IF x = k THEN d ELSE 0)]

\* ------------------------------------------------ employee_wallet.move
E_W_INSUFFICIENT_BALANCE == "wallet::E_INSUFFICIENT_BALANCE"
E_W_UNAUTHORIZED == "wallet::E_UNAUTHORIZED"
E_W_INVALID_AMOUNT == "wallet::E_INVALID_AMOUNT"

\* An object id under which no wallet has been created (exists is a history
\* field).
NoWallet ==
    [exists |-> FALSE, owner |-> "none", organization |-> "none", balance |-> 0,
     total_deposited |-> 0, total_withdrawn |-> 0]

\* create_wallet that binds the wallet to the organization as its owner.
create_wallet_swapped(owner, organization) ==
    [exists |-> TRUE, owner |-> organization, organization |-> owner,
     balance |-> 0, total_deposited |-> 0, total_withdrawn |-> 0]

\* create_wallet: a fresh object owned by the sender, zero balance and totals.
create_wallet(owner, organization) ==
    [exists |-> TRUE, owner |-> owner, organization |-> organization,
     balance |-> 0, total_deposited |-> 0, total_withdrawn |-> 0]

\* deposit(wallet, coin): amount is the value of the coin.
deposit(wallet, amount) ==
    IF ~(amount > 0) THEN [res |-> E_W_INVALID_AMOUNT, wallet |-> wallet]
    ELSE [res |-> "ok",
          wallet |-> [wallet EXCEPT !.balance = @ + amount,
                                    !.total_deposited = @ + amount]]

\* withdraw that does not compare the caller with the owner.
withdraw_any_caller(wallet, amount, caller) ==
    IF ~(amount > 0)
      THEN [res |-> E_W_INVALID_AMOUNT, wallet |-> wallet, out |-> 0]
    ELSE IF ~(wallet.balance >= amount)
      THEN [res |-> E_W_INSUFFICIENT_BALANCE, wallet |-> wallet, out |-> 0]
    ELSE [res |-> "ok",
          wallet |-> [wallet EXCEPT !.balance = @ - amount,
                                    !.total_withdrawn = @ + amount],
          out |-> amount]

\* withdraw(wallet, amount) by caller; out is the coin sent to the caller.
withdraw(wallet, amount, caller) ==
    IF ~(caller = wallet.owner)
      THEN [res |-> E_W_UNAUTHORIZED, wallet |-> wallet, out |-> 0]
    ELSE IF ~(amount > 0)
      THEN [res |-> E_W_INVALID_AMOUNT, wallet |-> wallet, out |-> 0]
    ELSE IF ~(wallet.balance >= amount)
      THEN [res |-> E_W_INSUFFICIENT_BALANCE, wallet |-> wallet, out |-> 0]
    ELSE [res |-> "ok",
          wallet |-> [wallet EXCEPT !.balance = @ - amount,
                                    !.total_withdrawn = @ + amount],
          out |-> amount]

\* transfer_funds that forgets from_wallet.total_withdrawn.
transfer_funds_no_total(from_wallet, to_wallet, amount, caller) ==
    IF ~(caller = from_wallet.owner)
      THEN [res |-> E_W_UNAUTHORIZED, from |-> from_wallet, to |-> to_wallet]
    ELSE IF ~(amount > 0)
      THEN [res |-> E_W_INVALID_AMOUNT, from |-> from_wallet, to |-> to_wallet]
    ELSE IF ~(from_wallet.balance >= amount)
      THEN [res |-> E_W_INSUFFICIENT_BALANCE, from |-> from_wallet, to |-> to_wallet]
    ELSE [res |-> "ok",
          from |-> [from_wallet EXCEPT !.balance = @ - amount],
          to |-> [to_wallet EXCEPT !.balance = @ + amount,
                                   !.total_deposited = @ + amount]]

\* transfer_funds that takes the amount out of from_wallet and stops there.
transfer_funds_debit_only(from_wallet, to_wallet, amount, caller) ==
    IF ~(caller = from_wallet.owner)
      THEN [res |-> E_W_UNAUTHORIZED, from |-> from_wallet, to |-> to_wallet]
    ELSE IF ~(amount > 0)
      THEN [res |-> E_W_INVALID_AMOUNT, from |-> from_wallet, to |-> to_wallet]
    ELSE IF ~(from_wallet.balance >= amount)
      THEN [res |-> E_W_INSUFFICIENT_BALANCE, from |-> from_wallet, to |-> to_wallet]
    ELSE [res |-> "ok",
          from |-> [from_wallet EXCEPT !.balance = @ - amount,
                                       !.total_withdrawn = @ + amount],
          to |-> to_wallet]

\* transfer_funds(from_wallet, to_wallet, amount) by caller.
transfer_funds(from_wallet, to_wallet, amount, caller) ==
    IF ~(caller = from_wallet.owner)
      THEN [res |-> E_W_UNAUTHORIZED, from |-> from_wallet, to |-> to_wallet]
    ELSE IF ~(amount > 0)
      THEN [res |-> E_W_INVALID_AMOUNT, from |-> from_wallet, to |-> to_wallet]
    ELSE IF ~(from_wallet.balance >= amount)
      THEN [res |-> E_W_INSUFFICIENT_BALANCE, from |-> from_wallet, to |-> to_wallet]
    ELSE [res |-> "ok",
          from |-> [from_wallet EXCEPT !.balance = @ - amount,
                                       !.total_withdrawn = @ + amount],
          to |-> [to_wallet EXCEPT !.balance = @ + amount,
                                   !.total_deposited = @ + amount]]

\* --------------------------------------------- payroll_distributor.move
E_P_INSUFFICIENT_BALANCE == "payroll::E_INSUFFICIENT_BALANCE"
E_P_INVALID_AMOUNT == "payroll::E_INVALID_AMOUNT"
E_BATCH_TOO_LARGE == "payroll::E_BATCH_TOO_LARGE"
E_PAYROLL_NOT_FOUND == "payroll::E_PAYROLL_NOT_FOUND"

MAX_BATCH_SIZE == 500

\* init_registry: no runs, next_run_id 0.
init_registry == [payroll_runs |-> EmptyMap, next_run_id |-> 0]

\* An object id that holds no batch: before create_payroll_batch and after
\* close_payroll_batch (open says whether the object exists).
NoBatch ==
    [open |-> FALSE, organization |-> "none", balance |-> 0,
     recipients |-> EmptyMap, total_amount |-> 0]

\* create_payroll_batch(organization, coin): amount is the value of the coin.
create_payroll_batch(organization, amount) ==
    IF ~(amount > 0) THEN [res |-> E_P_INVALID_AMOUNT, batch |-> NoBatch]
    ELSE [res |-> "ok",
          batch |-> [open |-> TRUE, organization |-> organization,
                     balance |-> amount, recipients |-> EmptyMap,
                     total_amount |-> 0]]

\* vec_map::remove
vec_map_remove(m, k) == [x \in (DOMAIN m) \ {k} |-> m[x]]

\* vec_map::insert (the key is known to be absent)
vec_map_insert(m, k, v) == [x \in (DOMAIN m) \cup {k} |-> IF x = k THEN v ELSE m[x]]

\* add_to_batch that overwrites the amount of an employee already pending.
add_to_batch_overwrite(batch, employee, amount) ==
    IF ~(amount > 0) THEN [res |-> E_P_INVALID_AMOUNT, batch |-> batch]
    ELSE IF ~(Cardinality(DOMAIN batch.recipients) < MAX_BATCH_SIZE)
      THEN [res |-> E_BATCH_TOO_LARGE, batch |-> batch]
    ELSE IF employee \notin DOMAIN batch.recipients
      THEN [res |-> "ok",
            batch |-> [batch EXCEPT
                         !.recipients = vec_map_insert(@, employee, amount),
                         !.total_amount = @ + amount]]
    ELSE [res |-> "ok",
          batch |-> [batch EXCEPT !.recipients[employee] = amount]]

\* add_to_batch that adds the amount to the one an employee already pending
\* has.
add_to_batch_accumulate(batch, employee, amount) ==
    IF ~(amount > 0) THEN [res |-> E_P_INVALID_AMOUNT, batch |-> batch]
    ELSE IF ~(Cardinality(DOMAIN batch.recipients) < MAX_BATCH_SIZE)
      THEN [res |-> E_BATCH_TOO_LARGE, batch |-> batch]
    ELSE IF employee \notin DOMAIN batch.recipients
      THEN [res |-> "ok",
            batch |-> [batch EXCEPT
                         !.recipients = vec_map_insert(@, employee, amount),
                         !.total_amount = @ + amount]]
    ELSE [res |-> "ok",
          batch |-> [batch EXCEPT !.recipients[employee] = @ + amount,
                                  !.total_amount = @ + amount]]

\* add_to_batch that counts the recipients in total_amount instead of adding
\* their amounts.
add_to_batch_count(batch, employee, amount) ==
    IF ~(amount > 0) THEN [res |-> E_P_INVALID_AMOUNT, batch |-> batch]
    ELSE IF ~(Cardinality(DOMAIN batch.recipients) < MAX_BATCH_SIZE)
      THEN [res |-> E_BATCH_TOO_LARGE, batch |-> batch]
    ELSE IF employee \notin DOMAIN batch.recipients
      THEN [res |-> "ok",
            batch |-> [batch EXCEPT
                         !.recipients = vec_map_insert(@, employee, amount),
                         !.total_amount = @ + 1]]
    ELSE [res |-> "ok", batch |-> batch]

\* add_to_batch that lets a batch of MAX_BATCH_SIZE recipients take one more.
add_to_batch_one_more(batch, employee, amount) ==
    IF ~(amount > 0) THEN [res |-> E_P_INVALID_AMOUNT, batch |-> batch]
    ELSE IF ~(Cardinality(DOMAIN batch.recipients) <= MAX_BATCH_SIZE)
      THEN [res |-> E_BATCH_TOO_LARGE, batch |-> batch]
    ELSE IF employee \notin DOMAIN batch.recipients
      THEN [res |-> "ok",
            batch |-> [batch EXCEPT
                         !.recipients = vec_map_insert(@, employee, amount),
                         !.total_amount = @ + amount]]
    ELSE [res |-> "ok", batch |-> batch]

\* add_to_batch(batch, employee, amount)
add_to_batch(batch, employee, amount) ==
    IF ~(amount > 0) THEN [res |-> E_P_INVALID_AMOUNT, batch |-> batch]
    ELSE IF ~(Cardinality(DOMAIN batch.recipients) < MAX_BATCH_SIZE)
      THEN [res |-> E_BATCH_TOO_LARGE, batch |-> batch]
    ELSE IF employee \notin DOMAIN batch.recipients
      THEN [res |-> "ok",
            batch |-> [batch EXCEPT
                         !.recipients = vec_map_insert(@, employee, amount),
                         !.total_amount = @ + amount]]
    ELSE [res |-> "ok", batch |-> batch]

\* execute_payroll_single that reads the pending amount with vec_map::get and
\* leaves the entry in place.
execute_payroll_single_keep_recipient(reg, batch, wallet, executor) ==
    LET employee == wallet.owner
        unchanged(code) ==
            [res |-> code, registry |-> reg, batch |-> batch, wallet |-> wallet]
    IN IF ~(employee \in DOMAIN batch.recipients)
         THEN unchanged(E_PAYROLL_NOT_FOUND)
       ELSE
         LET amount == batch.recipients[employee]
         IN IF ~(batch.balance >= amount) THEN unchanged(E_P_INSUFFICIENT_BALANCE)
            ELSE
              LET dep == deposit(wallet, amount)
                  run_id == reg.next_run_id
                  run == [run_id |-> run_id,
                          organization |-> batch.organization,
                          executor |-> executor,
                          total_amount |-> amount,
                          employee_count |-> 1,
                          status |-> 1]
              IN IF dep.res # "ok" THEN unchanged(dep.res)
                 ELSE [res |-> "ok",
                       registry |-> [payroll_runs |->
                                        reg.payroll_runs @@ (run_id :> run),
                                     next_run_id |-> run_id + 1],
                       batch |-> [batch EXCEPT !.balance = @ - amount],
                       wallet |-> dep.wallet]

\* execute_payroll_single that records the batch's total_amount in the run.
execute_payroll_single_run_total(reg, batch, wallet, executor) ==
    LET employee == wallet.owner
        unchanged(code) ==
            [res |-> code, registry |-> reg, batch |-> batch, wallet |-> wallet]
    IN IF ~(employee \in DOMAIN batch.recipients)
         THEN unchanged(E_PAYROLL_NOT_FOUND)
       ELSE
         LET amount == batch.recipients[employee]
             recipients1 == vec_map_remove(batch.recipients, employee)
         IN IF ~(batch.balance >= amount) THEN unchanged(E_P_INSUFFICIENT_BALANCE)
            ELSE
              LET dep == deposit(wallet, amount)
                  run_id == reg.next_run_id
                  run == [run_id |-> run_id,
                          organization |-> batch.organization,
                          executor |-> executor,
                          total_amount |-> batch.total_amount,
                          employee_count |-> 1,
                          status |-> 1]
              IN IF dep.res # "ok" THEN unchanged(dep.res)
                 ELSE [res |-> "ok",
                       registry |-> [payroll_runs |->
                                        reg.payroll_runs @@ (run_id :> run),
                                     next_run_id |-> run_id + 1],
                       batch |-> [batch EXCEPT !.recipients = recipients1,
                                               !.balance = @ - amount],
                       wallet |-> dep.wallet]

\* execute_payroll_single that advances next_run_id by two.
execute_payroll_single_skip_id(reg, batch, wallet, executor) ==
    LET employee == wallet.owner
        unchanged(code) ==
            [res |-> code, registry |-> reg, batch |-> batch, wallet |-> wallet]
    IN IF ~(employee \in DOMAIN batch.recipients)
         THEN unchanged(E_PAYROLL_NOT_FOUND)
       ELSE
         LET amount == batch.recipients[employee]
             recipients1 == vec_map_remove(batch.recipients, employee)
         IN IF ~(batch.balance >= amount) THEN unchanged(E_P_INSUFFICIENT_BALANCE)
            ELSE
              LET dep == deposit(wallet, amount)
                  run_id == reg.next_run_id
                  run == [run_id |-> run_id,
                          organization |-> batch.organization,
                          executor |-> executor,
                          total_amount |-> amount,
                          employee_count |-> 1,
                          status |-> 1]
              IN IF dep.res # "ok" THEN unchanged(dep.res)
                 ELSE [res |-> "ok",
                       registry |-> [payroll_runs |->
                                        reg.payroll_runs @@ (run_id :> run),
                                     next_run_id |-> run_id + 2],
                       batch |-> [batch EXCEPT !.recipients = recipients1,
                                               !.balance = @ - amount],
                       wallet |-> dep.wallet]

\* execute_payroll_single whose balance assert keeps the vec_map::remove that
\* precedes it.
execute_payroll_single_no_rollback(reg, batch, wallet, executor) ==
    LET employee == wallet.owner
        unchanged(code) ==
            [res |-> code, registry |-> reg, batch |-> batch, wallet |-> wallet]
    IN IF ~(employee \in DOMAIN batch.recipients)
         THEN unchanged(E_PAYROLL_NOT_FOUND)
       ELSE
         LET amount == batch.recipients[employee]
             recipients1 == vec_map_remove(batch.recipients, employee)
         IN IF ~(batch.balance >= amount)
              THEN [res |-> E_P_INSUFFICIENT_BALANCE, registry |-> reg,
                    batch |-> [batch EXCEPT !.recipients = recipients1],
                    wallet |-> wallet]
            ELSE
              LET dep == deposit(wallet, amount)
                  run_id == reg.next_run_id
                  run == [run_id |-> run_id,
                          organization |-> batch.organization,
                          executor |-> executor,
                          total_amount |-> amount,
                          employee_count |-> 1,
                          status |-> 1]
              IN IF dep.res # "ok" THEN unchanged(dep.res)
                 ELSE [res |-> "ok",
                       registry |-> [payroll_runs |->
                                        reg.payroll_runs @@ (run_id :> run),
                                     next_run_id |-> run_id + 1],
                       batch |-> [batch EXCEPT !.recipients = recipients1,
                                               !.balance = @ - amount],
                       wallet |-> dep.wallet]

\* execute_payroll_single that credits the wallet balance without counting
\* the payment in total_deposited.
execute_payroll_single_no_total(reg, batch, wallet, executor) ==
    LET employee == wallet.owner
        unchanged(code) ==
            [res |-> code, registry |-> reg, batch |-> batch, wallet |-> wallet]
    IN IF ~(employee \in DOMAIN batch.recipients)
         THEN unchanged(E_PAYROLL_NOT_FOUND)
       ELSE
         LET amount == batch.recipients[employee]
             run_id == reg.next_run_id
             run == [run_id |-> run_id, organization |-> batch.organization,
                     executor |-> executor, total_amount |-> amount,
                     employee_count |-> 1, status |-> 1]
         IN IF ~(batch.balance >= amount) THEN unchanged(E_P_INSUFFICIENT_BALANCE)
            ELSE [res |-> "ok",
                  registry |-> [payroll_runs |-> reg.payroll_runs @@ (run_id :> run),
                                next_run_id |-> run_id + 1],
                  batch |-> [batch EXCEPT
                               !.recipients = vec_map_remove(batch.recipients, employee),
                               !.balance = @ - amount],
                  wallet |-> [wallet EXCEPT !.balance = @ + amount]]

\* execute_payroll_single(registry, batch, wallet) sent by executor.
execute_payroll_single(reg, batch, wallet, executor) ==
    LET employee == wallet.owner
        unchanged(code) ==
            [res |-> code, registry |-> reg, batch |-> batch, wallet |-> wallet]
    IN IF ~(employee \in DOMAIN batch.recipients)
         THEN unchanged(E_PAYROLL_NOT_FOUND)
       ELSE
         LET amount == batch.recipients[employee]
             recipients1 == vec_map_remove(batch.recipients, employee)
             available == batch.balance
         IN IF ~(available >= amount) THEN unchanged(E_P_INSUFFICIENT_BALANCE)
            ELSE
              LET dep == deposit(wallet, amount)
                  run_id == reg.next_run_id
                  run == [run_id |-> run_id,
                          organization |-> batch.organization,
                          executor |-> executor,
                          total_amount |-> amount,
                          employee_count |-> 1,
                          status |-> 1]
              IN IF dep.res # "ok" THEN unchanged(dep.res)
                 ELSE [res |-> "ok",
                       registry |-> [payroll_runs |->
                                        reg.payroll_runs @@ (run_id :> run),
                                     next_run_id |-> run_id + 1],
                       batch |-> [batch EXCEPT !.recipients = recipients1,
                                               !.balance = @ - amount],
                       wallet |-> dep.wallet]

\* batch_execute_payroll that pays without taking the amount out of the escrow.
batch_execute_payroll_no_split(batch, wallet) ==
    LET employee == wallet.owner
    IN IF ~(employee \in DOMAIN batch.recipients)
         THEN [res |-> E_PAYROLL_NOT_FOUND, batch |-> batch, out |-> 0]
       ELSE
         LET amount == batch.recipients[employee]
             recipients1 == vec_map_remove(batch.recipients, employee)
         IN IF ~(batch.balance >= amount)
              THEN [res |-> E_P_INSUFFICIENT_BALANCE, batch |-> batch, out |-> 0]
            ELSE [res |-> "ok",
                  batch |-> [batch EXCEPT !.recipients = recipients1],
                  out |-> amount]

\* batch_execute_payroll that wants the escrow to exceed the amount.
batch_execute_payroll_strict(batch, wallet) ==
    LET employee == wallet.owner
    IN IF ~(employee \in DOMAIN batch.recipients)
         THEN [res |-> E_PAYROLL_NOT_FOUND, batch |-> batch, out |-> 0]
       ELSE
         LET amount == batch.recipients[employee]
             recipients1 == vec_map_remove(batch.recipients, employee)
         IN IF ~(batch.balance > amount)
              THEN [res |-> E_P_INSUFFICIENT_BALANCE, batch |-> batch, out |-> 0]
            ELSE [res |-> "ok",
                  batch |-> [batch EXCEPT !.recipients = recipients1,
                                          !.balance = @ - amount],
                  out |-> amount]

\* batch_execute_payroll that leaves the paid employee among the recipients.
batch_execute_payroll_keep_recipient(batch, wallet) ==
    LET employee == wallet.owner
    IN IF ~(employee \in DOMAIN batch.recipients)
         THEN [res |-> E_PAYROLL_NOT_FOUND, batch |-> batch, out |-> 0]
       ELSE
         LET amount == batch.recipients[employee]
         IN IF ~(batch.balance >= amount)
              THEN [res |-> E_P_INSUFFICIENT_BALANCE, batch |-> batch, out |-> 0]
            ELSE [res |-> "ok",
                  batch |-> [batch EXCEPT !.balance = @ - amount],
                  out |-> amount]

\* batch_execute_payroll that pays one unit to an employee who is not pending.
batch_execute_payroll_unlisted(batch, wallet) ==
    LET employee == wallet.owner
    IN IF ~(employee \in DOMAIN batch.recipients)
         THEN IF batch.balance >= 1
                THEN [res |-> "ok", batch |-> [batch EXCEPT !.balance = @ - 1],
                      out |-> 1]
                ELSE [res |-> E_P_INSUFFICIENT_BALANCE, batch |-> batch, out |-> 0]
       ELSE
         LET amount == batch.recipients[employee]
             recipients1 == vec_map_remove(batch.recipients, employee)
         IN IF ~(batch.balance >= amount)
              THEN [res |-> E_P_INSUFFICIENT_BALANCE, batch |-> batch, out |-> 0]
            ELSE [res |-> "ok",
                  batch |-> [batch EXCEPT !.recipients = recipients1,
                                          !.balance = @ - amount],
                  out |-> amount]

\* batch_execute_payroll(batch, wallet): out is the value of the coin returned.
batch_execute_payroll(batch, wallet) ==
    LET employee == wallet.owner
    IN IF ~(employee \in DOMAIN batch.recipients)
         THEN [res |-> E_PAYROLL_NOT_FOUND, batch |-> batch, out |-> 0]
       ELSE
         LET amount == batch.recipients[employee]
             recipients1 == vec_map_remove(batch.recipients, employee)
             available == batch.balance
         IN IF ~(available >= amount)
              THEN [res |-> E_P_INSUFFICIENT_BALANCE, batch |-> batch, out |-> 0]
            ELSE [res |-> "ok",
                  batch |-> [batch EXCEPT !.recipients = recipients1,
                                          !.balance = @ - amount],
                  out |-> amount]

\* close_payroll_batch that destroys the escrowed balance with the batch.
close_payroll_batch_no_refund(batch) ==
    [res |-> "ok", batch |-> NoBatch, out |-> 0]

\* close_payroll_batch(batch): the object is deleted, the remaining balance
\* goes to the sender.
close_payroll_batch(batch) ==
    LET remaining == batch.balance
    IN [res |-> "ok", batch |-> NoBatch, out |-> remaining]

\* --------------------------------------------------- privacy_pool.move
E_INVALID_PROOF == "pool::E_INVALID_PROOF"
E_NULLIFIER_SPENT == "pool::E_NULLIFIER_SPENT"
E_COMMITMENT_EXISTS == "pool::E_COMMITMENT_EXISTS"
E_POOL_INVALID_AMOUNT == "pool::E_INVALID_AMOUNT"
E_INSUFFICIENT_POOL_BALANCE == "pool::E_INSUFFICIENT_POOL_BALANCE"
E_MERKLE_ROOT_MISMATCH == "pool::E_MERKLE_ROOT_MISMATCH"

\* vector::empty<u8>()
EmptyRoot == "empty"

\* No pool object has been shared yet (exists is a history field).
NoPool ==
    [exists |-> FALSE, balance |-> 0, commitments |-> {}, nullifiers |-> {},
     merkle_root |-> EmptyRoot, total_deposits |-> 0, total_withdrawals |-> 0,
     denomination |-> 0]

\* init_pool(denomination)
init_pool(denomination) ==
    IF ~(denomination > 0) THEN [res |-> E_POOL_INVALID_AMOUNT, pool |-> NoPool]
    ELSE [res |-> "ok",
          pool |-> [exists |-> TRUE, balance |-> 0, commitments |-> {},
                    nullifiers |-> {}, merkle_root |-> EmptyRoot,
                    total_deposits |-> 0, total_withdrawals |-> 0,
                    denomination |-> denomination]]

\* deposit that accepts any positive coin instead of the denomination.
pool_deposit_any_amount(p, amount, commitment) ==
    IF ~(amount > 0) THEN [res |-> E_POOL_INVALID_AMOUNT, pool |-> p]
    ELSE IF ~(commitment \notin p.commitments)
      THEN [res |-> E_COMMITMENT_EXISTS, pool |-> p]
    ELSE [res |-> "ok",
          pool |-> [p EXCEPT !.balance = @ + amount,
                             !.commitments = @ \cup {commitment},
                             !.total_deposits = @ + amount]]

\* deposit that does not look the commitment up.
pool_deposit_no_lookup(p, amount, commitment) ==
    IF ~(amount = p.denomination) THEN [res |-> E_POOL_INVALID_AMOUNT, pool |-> p]
    ELSE [res |-> "ok",
          pool |-> [p EXCEPT !.balance = @ + amount,
                             !.commitments = @ \cup {commitment},
                             !.total_deposits = @ + amount]]

\* deposit that accepts every coin worth at least the denomination.
pool_deposit_at_least(p, amount, commitment) ==
    IF ~(amount >= p.denomination) THEN [res |-> E_POOL_INVALID_AMOUNT, pool |-> p]
    ELSE IF ~(commitment \notin p.commitments)
      THEN [res |-> E_COMMITMENT_EXISTS, pool |-> p]
    ELSE [res |-> "ok",
          pool |-> [p EXCEPT !.balance = @ + amount,
                             !.commitments = @ \cup {commitment},
                             !.total_deposits = @ + amount]]

\* deposit(pool, coin, commitment): amount is the value of the coin.
pool_deposit(p, amount, commitment) ==
    IF ~(amount = p.denomination) THEN [res |-> E_POOL_INVALID_AMOUNT, pool |-> p]
    ELSE IF ~(commitment \notin p.commitments)
      THEN [res |-> E_COMMITMENT_EXISTS, pool |-> p]
    ELSE [res |-> "ok",
          pool |-> [p EXCEPT !.balance = @ + amount,
                             !.commitments = @ \cup {commitment},
                             !.total_deposits = @ + amount]]

\* verify_proof(proof, nullifier, merkle_root): the body is empty, it never
\* aborts.  TRUE means that the call returns.
verify_proof(proof, nullifier, merkle_root) == TRUE

\* withdraw that does not mark the nullifier as spent.
pool_withdraw_no_mark(p, nullifier, recipient, proof, merkle_root) ==
    IF ~(nullifier \notin p.nullifiers)
      THEN [res |-> E_NULLIFIER_SPENT, pool |-> p, out |-> 0]
    ELSE IF ~(merkle_root = p.merkle_root)
      THEN [res |-> E_MERKLE_ROOT_MISMATCH, pool |-> p, out |-> 0]
    ELSE IF ~(p.balance >= p.denomination)
      THEN [res |-> E_INSUFFICIENT_POOL_BALANCE, pool |-> p, out |-> 0]
    ELSE [res |-> "ok",
          pool |-> [p EXCEPT !.balance = @ - p.denomination,
                             !.total_withdrawals = @ + p.denomination],
          out |-> p.denomination]

\* withdraw that does not compare the claimed root with pool.merkle_root.
pool_withdraw_any_root(p, nullifier, recipient, proof, merkle_root) ==
    IF ~(nullifier \notin p.nullifiers)
      THEN [res |-> E_NULLIFIER_SPENT, pool |-> p, out |-> 0]
    ELSE IF ~(p.balance >= p.denomination)
      THEN [res |-> E_INSUFFICIENT_POOL_BALANCE, pool |-> p, out |-> 0]
    ELSE [res |-> "ok",
          pool |-> [p EXCEPT !.nullifiers = @ \cup {nullifier},
                             !.balance = @ - p.denomination,
                             !.total_withdrawals = @ + p.denomination],
          out |-> p.denomination]

\* withdraw that looks at the pool balance before the nullifier and the root.
pool_withdraw_balance_first(p, nullifier, recipient, proof, merkle_root) ==
    IF ~(p.balance >= p.denomination)
      THEN [res |-> E_INSUFFICIENT_POOL_BALANCE, pool |-> p, out |-> 0]
    ELSE IF ~(nullifier \notin p.nullifiers)
      THEN [res |-> E_NULLIFIER_SPENT, pool |-> p, out |-> 0]
    ELSE IF ~(merkle_root = p.merkle_root)
      THEN [res |-> E_MERKLE_ROOT_MISMATCH, pool |-> p, out |-> 0]
    ELSE [res |-> "ok",
          pool |-> [p EXCEPT !.nullifiers = @ \cup {nullifier},
                             !.balance = @ - p.denomination,
                             !.total_withdrawals = @ + p.denomination],
          out |-> p.denomination]

\* withdraw that keeps the nullifier marked when the pool cannot pay.
pool_withdraw_mark_early(p, nullifier, recipient, proof, merkle_root) ==
    IF ~(nullifier \notin p.nullifiers)
      THEN [res |-> E_NULLIFIER_SPENT, pool |-> p, out |-> 0]
    ELSE IF ~(merkle_root = p.merkle_root)
      THEN [res |-> E_MERKLE_ROOT_MISMATCH, pool |-> p, out |-> 0]
    ELSE IF ~(p.balance >= p.denomination)
      THEN [res |-> E_INSUFFICIENT_POOL_BALANCE,
            pool |-> [p EXCEPT !.nullifiers = @ \cup {nullifier}], out |-> 0]
    ELSE [res |-> "ok",
          pool |-> [p EXCEPT !.nullifiers = @ \cup {nullifier},
                             !.balance = @ - p.denomination,
                             !.total_withdrawals = @ + p.denomination],
          out |-> p.denomination]

\* withdraw that marks the nullifier before it compares the roots and keeps
\* it marked.
pool_withdraw_burn_on_mismatch(p, nullifier, recipient, proof, merkle_root) ==
    IF ~(nullifier \notin p.nullifiers)
      THEN [res |-> E_NULLIFIER_SPENT, pool |-> p, out |-> 0]
    ELSE IF ~(merkle_root = p.merkle_root)
      THEN [res |-> E_MERKLE_ROOT_MISMATCH,
            pool |-> [p EXCEPT !.nullifiers = @ \cup {nullifier}], out |-> 0]
    ELSE IF ~(p.balance >= p.denomination)
      THEN [res |-> E_INSUFFICIENT_POOL_BALANCE, pool |-> p, out |-> 0]
    ELSE [res |-> "ok",
          pool |-> [p EXCEPT !.nullifiers = @ \cup {nullifier},
                             !.balance = @ - p.denomination,
                             !.total_withdrawals = @ + p.denomination],
          out |-> p.denomination]

\* withdraw that does not count the payment in total_withdrawals.
pool_withdraw_no_total(p, nullifier, recipient, proof, merkle_root) ==
    IF ~(nullifier \notin p.nullifiers)
      THEN [res |-> E_NULLIFIER_SPENT, pool |-> p, out |-> 0]
    ELSE IF ~(merkle_root = p.merkle_root)
      THEN [res |-> E_MERKLE_ROOT_MISMATCH, pool |-> p, out |-> 0]
    ELSE IF ~(p.balance >= p.denomination)
      THEN [res |-> E_INSUFFICIENT_POOL_BALANCE, pool |-> p, out |-> 0]
    ELSE [res |-> "ok",
          pool |-> [p EXCEPT !.nullifiers = @ \cup {nullifier},
                             !.balance = @ - p.denomination],
          out |-> p.denomination]

\* withdraw(pool, nullifier, recipient, proof, merkle_root): out is the value
\* of the coin sent to recipient.
pool_withdraw(p, nullifier, recipient, proof, merkle_root) ==
    IF ~(nullifier \notin p.nullifiers)
      THEN [res |-> E_NULLIFIER_SPENT, pool |-> p, out |-> 0]
    ELSE IF ~(merkle_root = p.merkle_root)
      THEN [res |-> E_MERKLE_ROOT_MISMATCH, pool |-> p, out |-> 0]
    ELSE IF ~verify_proof(proof, nullifier, merkle_root)
      THEN [res |-> E_INVALID_PROOF, pool |-> p, out |-> 0]
    ELSE IF ~(p.balance >= p.denomination)
      THEN [res |-> E_INSUFFICIENT_POOL_BALANCE, pool |-> p, out |-> 0]
    ELSE [res |-> "ok",
          pool |-> [p EXCEPT !.nullifiers = @ \cup {nullifier},
                             !.balance = @ - p.denomination,
                             !.total_withdrawals = @ + p.denomination],
          out |-> p.denomination]

\* update_merkle_root that only replaces the empty root of a new pool.
update_merkle_root_if_empty(p, new_root) ==
    IF p.merkle_root = EmptyRoot THEN [p EXCEPT !.merkle_root = new_root] ELSE p

\* update_merkle_root(pool, new_root)
update_merkle_root(p, new_root) == [p EXCEPT !.merkle_root = new_root]

\* ------------------------------------------ organization_registry.move
E_ORG_EXISTS == "org::E_ORG_EXISTS"
E_ORG_MISSING == "org::E_ORG_MISSING"
E_NOT_ADMIN == "org::E_NOT_ADMIN"
E_EMPLOYEE_EXISTS == "org::E_EMPLOYEE_EXISTS"
E_EMPLOYEE_MISSING == "org::E_EMPLOYEE_MISSING"
E_EMPLOYEE_CAP == "org::E_EMPLOYEE_CAP"
E_INVALID_SPEND_LIMIT == "org::E_INVALID_SPEND_LIMIT"
E_INVALID_EMPLOYEE_CAP == "org::E_INVALID_EMPLOYEE_CAP"
E_TREASURY_LIMIT == "org::E_TREASURY_LIMIT"
E_TREASURY_INSUFFICIENT == "org::E_TREASURY_INSUFFICIENT"

\* The addresses that send registry transactions; an organization is keyed by
\* the address that registered it.
OrgAdmins == {"a1", "a2"}

\* A key of Registry.organizations with no record (exists is
\* table::contains).  name and metadata are stored and never read; they are
\* left out.
NoOrg ==
    [exists |-> FALSE, admin |-> "none", employees |-> EmptyMap,
     employee_cap |-> 0, employee_count |-> 0,
     treasury |-> [total_deposited |-> 0, total_withdrawn |-> 0, spend_limit |-> 0]]

\* init_registry of organization_registry: an empty table.
org_init_registry == [a \in OrgAdmins |-> NoOrg]

\* register_organization that does not look the sender up in the table.
register_organization_again(orgs, employee_cap, spend_limit, sender) ==
    IF ~(employee_cap > 0) THEN [res |-> E_INVALID_EMPLOYEE_CAP, organizations |-> orgs]
    ELSE IF ~(spend_limit > 0)
      THEN [res |-> E_INVALID_SPEND_LIMIT, organizations |-> orgs]
    ELSE [res |-> "ok",
          organizations |->
              [orgs EXCEPT ![sender] =
                  [exists |-> TRUE, admin |-> sender, employees |-> EmptyMap,
                   employee_cap |-> employee_cap, employee_count |-> 0,
                   treasury |-> [total_deposited |-> 0, total_withdrawn |-> 0,
                                 spend_limit |-> spend_limit]]]]

\* register_organization(registry, employee_cap, spend_limit) sent by sender.
register_organization(orgs, employee_cap, spend_limit, sender) ==
    IF ~(employee_cap > 0) THEN [res |-> E_INVALID_EMPLOYEE_CAP, organizations |-> orgs]
    ELSE IF ~(spend_limit > 0)
      THEN [res |-> E_INVALID_SPEND_LIMIT, organizations |-> orgs]
    ELSE IF ~(~orgs[sender].exists) THEN [res |-> E_ORG_EXISTS, organizations |-> orgs]
    ELSE [res |-> "ok",
          organizations |->
              [orgs EXCEPT ![sender] =
                  [exists |-> TRUE, admin |-> sender, employees |-> EmptyMap,
                   employee_cap |-> employee_cap, employee_count |-> 0,
                   treasury |-> [total_deposited |-> 0, total_withdrawn |-> 0,
                                 spend_limit |-> spend_limit]]]]

\* assert_admin that lets every sender pass.
assert_admin_anyone(caller, org) == TRUE

\* assert_admin(ctx, org): TRUE when the assert passes.
assert_admin(caller, org) == caller = org.admin

\* add_employee that does not look at employee_cap.
add_employee_no_cap(orgs, org_admin, employee, wallet, role, caller) ==
    LET org == orgs[org_admin] IN
    IF ~org.exists THEN [res |-> E_ORG_MISSING, organizations |-> orgs]
    ELSE IF ~assert_admin(caller, org) THEN [res |-> E_NOT_ADMIN, organizations |-> orgs]
    ELSE IF ~(employee \notin DOMAIN org.employees)
      THEN [res |-> E_EMPLOYEE_EXISTS, organizations |-> orgs]
    ELSE [res |-> "ok",
          organizations |->
              [orgs EXCEPT
                 ![org_admin].employees =
                     @ @@ (employee :> [wallet |-> wallet, role |-> role, active |-> TRUE]),
                 ![org_admin].employee_count = @ + 1]]

\* add_employee that replaces the profile of an employee already present.
add_employee_replace(orgs, org_admin, employee, wallet, role, caller) ==
    LET org == orgs[org_admin] IN
    IF ~org.exists THEN [res |-> E_ORG_MISSING, organizations |-> orgs]
    ELSE IF ~assert_admin(caller, org) THEN [res |-> E_NOT_ADMIN, organizations |-> orgs]
    ELSE IF ~(org.employee_count < org.employee_cap)
      THEN [res |-> E_EMPLOYEE_CAP, organizations |-> orgs]
    ELSE IF ~(employee \notin DOMAIN org.employees)
      THEN [res |-> "ok",
            organizations |->
                [orgs EXCEPT
                   ![org_admin].employees[employee] =
                       [wallet |-> wallet, role |-> role, active |-> TRUE]]]
    ELSE [res |-> "ok",
          organizations |->
              [orgs EXCEPT
                 ![org_admin].employees =
                     @ @@ (employee :> [wallet |-> wallet, role |-> role, active |-> TRUE]),
                 ![org_admin].employee_count = @ + 1]]

\* add_employee that looks the employee up before it compares with the cap.
add_employee_duplicate_first(orgs, org_admin, employee, wallet, role, caller) ==
    LET org == orgs[org_admin] IN
    IF ~org.exists THEN [res |-> E_ORG_MISSING, organizations |-> orgs]
    ELSE IF ~assert_admin(caller, org) THEN [res |-> E_NOT_ADMIN, organizations |-> orgs]
    ELSE IF ~(employee \notin DOMAIN org.employees)
      THEN [res |-> E_EMPLOYEE_EXISTS, organizations |-> orgs]
    ELSE IF ~(org.employee_count < org.employee_cap)
      THEN [res |-> E_EMPLOYEE_CAP, organizations |-> orgs]
    ELSE [res |-> "ok",
          organizations |->
              [orgs EXCEPT
                 ![org_admin].employees =
                     @ @@ (employee :> [wallet |-> wallet, role |-> role, active |-> TRUE]),
                 ![org_admin].employee_count = @ + 1]]

\* add_employee(registry, org_admin, employee, wallet, role) sent by caller.
\* borrow_org_mut aborts with E_ORG_MISSING when the table has no org_admin.
add_employee(orgs, org_admin, employee, wallet, role, caller) ==
    LET org == orgs[org_admin] IN
    IF ~org.exists THEN [res |-> E_ORG_MISSING, organizations |-> orgs]
    ELSE IF ~assert_admin(caller, org) THEN [res |-> E_NOT_ADMIN, organizations |-> orgs]
    ELSE IF ~(org.employee_count < org.employee_cap)
      THEN [res |-> E_EMPLOYEE_CAP, organizations |-> orgs]
    ELSE IF ~(employee \notin DOMAIN org.employees)
      THEN [res |-> E_EMPLOYEE_EXISTS, organizations |-> orgs]
    ELSE [res |-> "ok",
          organizations |->
              [orgs EXCEPT
                 ![org_admin].employees =
                     @ @@ (employee :> [wallet |-> wallet, role |-> role, active |-> TRUE]),
                 ![org_admin].employee_count = @ + 1]]

\* update_employee_status that takes a deactivated employee off the roster.
update_employee_status_drop(orgs, org_admin, employee, active, caller) ==
    LET org == orgs[org_admin] IN
    IF ~org.exists THEN [res |-> E_ORG_MISSING, organizations |-> orgs]
    ELSE IF ~assert_admin(caller, org) THEN [res |-> E_NOT_ADMIN, organizations |-> orgs]
    ELSE IF ~(employee \in DOMAIN org.employees)
      THEN [res |-> E_EMPLOYEE_MISSING, organizations |-> orgs]
    ELSE IF active
      THEN [res |-> "ok",
            organizations |->
                [orgs EXCEPT ![org_admin].employees[employee].active = active]]
    ELSE [res |-> "ok",
          organizations |->
              [orgs EXCEPT
                 ![org_admin].employees =
                     [e \in DOMAIN @ \ {employee} |-> @[e]],
                 ![org_admin].employee_count = @ - 1]]

\* update_employee_status(registry, org_admin, employee, active) sent by
\* caller.
update_employee_status(orgs, org_admin, employee, active, caller) ==
    LET org == orgs[org_admin] IN
    IF ~org.exists THEN [res |-> E_ORG_MISSING, organizations |-> orgs]
    ELSE IF ~assert_admin(caller, org) THEN [res |-> E_NOT_ADMIN, organizations |-> orgs]
    ELSE IF ~(employee \in DOMAIN org.employees)
      THEN [res |-> E_EMPLOYEE_MISSING, organizations |-> orgs]
    ELSE [res |-> "ok",
          organizations |-> [orgs EXCEPT ![org_admin].employees[employee].active = active]]

\* assert_within_limit that accepts every treasury.
assert_within_limit_off(treasury) == TRUE

\* assert_within_limit(treasury): TRUE when the assert passes.
assert_within_limit(treasury) ==
    LET available == treasury.total_deposited - treasury.total_withdrawn
    IN available <= treasury.spend_limit

\* record_deposit whose limit assert keeps the raised total.
record_deposit_keep_total(orgs, org_admin, amount, caller) ==
    LET org == orgs[org_admin]
        treasury1 == [org.treasury EXCEPT !.total_deposited = @ + amount]
    IN
    IF ~org.exists THEN [res |-> E_ORG_MISSING, organizations |-> orgs]
    ELSE IF ~assert_admin(caller, org) THEN [res |-> E_NOT_ADMIN, organizations |-> orgs]
    ELSE IF ~assert_within_limit(treasury1)
      THEN [res |-> E_TREASURY_LIMIT,
            organizations |-> [orgs EXCEPT ![org_admin].treasury = treasury1]]
    ELSE [res |-> "ok", organizations |-> [orgs EXCEPT ![org_admin].treasury = treasury1]]

\* record_deposit(registry, org_admin, amount) sent by caller: the total is
\* raised first and the limit is asserted on the result.
record_deposit(orgs, org_admin, amount, caller) ==
    LET org == orgs[org_admin]
        treasury1 == [org.treasury EXCEPT !.total_deposited = @ + amount]
    IN
    IF ~org.exists THEN [res |-> E_ORG_MISSING, organizations |-> orgs]
    ELSE IF ~assert_admin(caller, org) THEN [res |-> E_NOT_ADMIN, organizations |-> orgs]
    ELSE IF ~assert_within_limit(treasury1)
      THEN [res |-> E_TREASURY_LIMIT, organizations |-> orgs]
    ELSE [res |-> "ok", organizations |-> [orgs EXCEPT ![org_admin].treasury = treasury1]]

\* record_withdrawal that does not compare the amount with what is available.
record_withdrawal_unchecked(orgs, org_admin, amount, caller) ==
    LET org == orgs[org_admin] IN
    IF ~org.exists THEN [res |-> E_ORG_MISSING, organizations |-> orgs]
    ELSE IF ~assert_admin(caller, org) THEN [res |-> E_NOT_ADMIN, organizations |-> orgs]
    ELSE [res |-> "ok",
          organizations |-> [orgs EXCEPT ![org_admin].treasury.total_withdrawn = @ + amount]]

\* record_withdrawal(registry, org_admin, amount) sent by caller.
record_withdrawal(orgs, org_admin, amount, caller) ==
    LET org == orgs[org_admin]
        available == org.treasury.total_deposited - org.treasury.total_withdrawn
    IN
    IF ~org.exists THEN [res |-> E_ORG_MISSING, organizations |-> orgs]
    ELSE IF ~assert_admin(caller, org) THEN [res |-> E_NOT_ADMIN, organizations |-> orgs]
    ELSE IF ~(available >= amount)
      THEN [res |-> E_TREASURY_INSUFFICIENT, organizations |-> orgs]
    ELSE [res |-> "ok",
          organizations |-> [orgs EXCEPT ![org_admin].treasury.total_withdrawn = @ + amount]]

\* -------------------------------------------------------------- events
\* The types of the events a call emits (event::emit), in order.  The events
\* of a transaction that aborts are dropped with it.
create_wallet_events(owner, organization) == <<"WalletCreated">>

deposit_events(wallet, amount) ==
    IF deposit(wallet, amount).res = "ok" THEN <<"FundsDeposited">> ELSE <<>>

withdraw_events(wallet, amount, caller) ==
    IF withdraw(wallet, amount, caller).res = "ok" THEN <<"FundsWithdrawn">> ELSE <<>>

transfer_funds_events(from_wallet, to_wallet, amount, caller) ==
    IF transfer_funds(from_wallet, to_wallet, amount, caller).res = "ok"
    THEN <<"FundsTransferred">> ELSE <<>>

create_payroll_batch_events(organization, amount) ==
    IF create_payroll_batch(organization, amount).res = "ok"
    THEN <<"PayrollBatchCreated">> ELSE <<>>

add_to_batch_events(batch, employee, amount) == <<>>

\* execute_payroll_single that emits PayrollDistributed only.
execute_payroll_single_events_one(reg, batch, wallet, executor) ==
    IF execute_payroll_single(reg, batch, wallet, executor).res = "ok"
    THEN <<"PayrollDistributed">> ELSE <<>>

\* execute_payroll_single: the event of employee_wallet::deposit, then
\* PayrollDistributed and PayrollRunCompleted.
execute_payroll_single_events(reg, batch, wallet, executor) ==
    IF execute_payroll_single(reg, batch, wallet, executor).res = "ok"
    THEN deposit_events(wallet, batch.recipients[wallet.owner])
             \o <<"PayrollDistributed", "PayrollRunCompleted">>
    ELSE <<>>

batch_execute_payroll_events(batch, wallet) == <<>>

close_payroll_batch_events(batch) == <<>>

init_pool_events(denomination) == <<>>

pool_deposit_events(p, amount, commitment) ==
    IF pool_deposit(p, amount, commitment).res = "ok"
    THEN <<"AnonymousDeposit">> ELSE <<>>

pool_withdraw_events(p, nullifier, recipient, proof, merkle_root) ==
    IF pool_withdraw(p, nullifier, recipient, proof, merkle_root).res = "ok"
    THEN <<"AnonymousWithdrawal">> ELSE <<>>

update_merkle_root_events(p, new_root) == <<"MerkleRootUpdated">>

register_organization_events(orgs, employee_cap, spend_limit, sender) ==
    IF register_organization(orgs, employee_cap, spend_limit, sender).res = "ok"
    THEN <<"OrganizationRegistered">> ELSE <<>>

add_employee_events(orgs, org_admin, employee, wallet, role, caller) ==
    IF add_employee(orgs, org_admin, employee, wallet, role, caller).res = "ok"
    THEN <<"EmployeeAdded">> ELSE <<>>

update_employee_status_events(orgs, org_admin, employee, active, caller) ==
    IF update_employee_status(orgs, org_admin, employee, active, caller).res = "ok"
    THEN <<"EmployeeAdded">> ELSE <<>>

\* emit_treasury_event
record_deposit_events(orgs, org_admin, amount, caller) ==
    IF record_deposit(orgs, org_admin, amount, caller).res = "ok"
    THEN <<"TreasuryUpdated">> ELSE <<>>

record_withdrawal_events(orgs, org_admin, amount, caller) ==
    IF record_withdrawal(orgs, org_admin, amount, caller).res = "ok"
    THEN <<"TreasuryUpdated">> ELSE <<>>

\* ------------------------------------------------------------- state
Roots == {EmptyRoot, "r1", "r2"}

\* History of one batch id: whether a batch was created and closed under it,
\* the coin it was funded with, the amounts paid out of it, the refund of
\* close_payroll_batch, the employees paid and not inserted again since, and
\* the number of recipients that were pending when the batch was closed, and
\* per employee the number of add_to_batch calls that inserted the employee
\* minus the number of payouts made to the employee.
NoBatchHist ==
    [created |-> FALSE, closed |-> FALSE, funding |-> 0, paid |-> 0,
     refunded |-> 0, consumed |-> {}, discarded |-> 0, unpaid |-> EmptyMap]

\* History of the pool: accepted deposits per commitment and successful
\* withdrawals per nullifier.
NoPoolHist ==
    [deposits |-> [c \in Commitments |-> 0],
     withdrawals |-> [n \in Nullifiers |-> 0]]

Init ==
    /\ wallets = [w \in WalletIds |-> NoWallet]
    /\ batches = [b \in BatchIds |-> NoBatch]
    /\ pool = NoPool
    /\ registry = init_registry
    /\ organizations = org_init_registry
    /\ coinsIn = 0
    /\ coinsOut = 0
    /\ batchHist = [b \in BatchIds |-> NoBatchHist]
    /\ poolHist = NoPoolHist

\* object::new: the next unused object id
Fresh(S) == CHOOSE x \in S : \A y \in S : x <= y

\* ----------------------------------------------------- wallet actions
FreeWallets == {w \in WalletIds : ~wallets[w].exists}
Wallets == {w \in WalletIds : wallets[w].exists}

CreateWallet(w, owner, organization) ==
    /\ FreeWallets # {}
    /\ w = Fresh(FreeWallets)
    /\ wallets' = [wallets EXCEPT ![w] = create_wallet(owner, organization)]
    /\ UNCHANGED <<organizations, batches, pool, registry, coinsIn, coinsOut, batchHist, poolHist>>

Deposit(w, amount) ==
    LET r == deposit(wallets[w], amount) IN
    /\ w \in Wallets
    /\ coinsIn + amount <= MaxCoinsIn
    /\ r.wallet.total_deposited <= MaxTotal
    /\ wallets' = [wallets EXCEPT ![w] = r.wallet]
    /\ coinsIn' = IF r.res = "ok" THEN coinsIn + amount ELSE coinsIn
    /\ UNCHANGED <<organizations, batches, pool, registry, coinsOut, batchHist, poolHist>>

Withdraw(w, amount, caller) ==
    LET r == withdraw(wallets[w], amount, caller) IN
    /\ w \in Wallets
    /\ wallets' = [wallets EXCEPT ![w] = r.wallet]
    /\ coinsOut' = coinsOut + r.out
    /\ UNCHANGED <<organizations, batches, pool, registry, coinsIn, batchHist, poolHist>>

TransferFunds(f, t, amount, caller) ==
    LET r == transfer_funds(wallets[f], wallets[t], amount, caller) IN
    /\ f \in Wallets /\ t \in Wallets
    /\ f # t
    /\ r.to.total_deposited <= MaxTotal
    /\ wallets' = [wallets EXCEPT ![f] = r.from, ![t] = r.to]
    /\ UNCHANGED <<organizations, batches, pool, registry, coinsIn, coinsOut, batchHist, poolHist>>

\* ---------------------------------------------------- payroll actions
FreeBatches == {b \in BatchIds : ~batchHist[b].created}
OpenBatches == {b \in BatchIds : batches[b].open}

CreateBatch(b, organization, amount) ==
    LET r == create_payroll_batch(organization, amount) IN
    /\ FreeBatches # {}
    /\ b = Fresh(FreeBatches)
    /\ coinsIn + amount <= MaxCoinsIn
    /\ IF r.res = "ok"
       THEN /\ batches' = [batches EXCEPT ![b] = r.batch]
            /\ coinsIn' = coinsIn + amount
            /\ batchHist' = [batchHist EXCEPT ![b].created = TRUE,
                                              ![b].funding = amount]
       ELSE UNCHANGED <<batches, coinsIn, batchHist>>
    /\ UNCHANGED <<organizations, wallets, pool, registry, coinsOut, poolHist>>

AddToBatch(b, employee, amount) ==
    LET r == add_to_batch(batches[b], employee, amount)
        inserted == /\ employee \notin DOMAIN batches[b].recipients
                    /\ employee \in DOMAIN r.batch.recipients
    IN
    /\ b \in OpenBatches
    /\ batches' = [batches EXCEPT ![b] = r.batch]
    /\ batchHist' = IF inserted
                    THEN [batchHist EXCEPT ![b].consumed = @ \ {employee},
                                           ![b].unpaid = Bump(@, employee, 1)]
                    ELSE batchHist
    /\ UNCHANGED <<organizations, wallets, pool, registry, coinsIn, coinsOut, poolHist>>

ExecuteSingle(b, w, executor) ==
    LET r == execute_payroll_single(registry, batches[b], wallets[w], executor) IN
    /\ b \in OpenBatches /\ w \in Wallets
    /\ r.wallet.total_deposited <= MaxTotal
    /\ registry' = r.registry
    /\ batches' = [batches EXCEPT ![b] = r.batch]
    /\ wallets' = [wallets EXCEPT ![w] = r.wallet]
    /\ batchHist' = IF r.res = "ok"
                    THEN [batchHist EXCEPT
                            ![b].paid = @ + (r.wallet.balance - wallets[w].balance),
                            ![b].consumed = @ \cup {wallets[w].owner},
                            ![b].unpaid = Bump(@, wallets[w].owner, -1)]
                    ELSE batchHist
    /\ UNCHANGED <<organizations, pool, coinsIn, coinsOut, poolHist>>

BatchExecute(b, w) ==
    LET r == batch_execute_payroll(batches[b], wallets[w]) IN
    /\ b \in OpenBatches /\ w \in Wallets
    /\ batches' = [batches EXCEPT ![b] = r.batch]
    /\ coinsOut' = coinsOut + r.out
    /\ batchHist' = IF r.res = "ok"
                    THEN [batchHist EXCEPT
                            ![b].paid = @ + r.out,
                            ![b].consumed = @ \cup {wallets[w].owner},
                            ![b].unpaid = Bump(@, wallets[w].owner, -1)]
                    ELSE batchHist
    /\ UNCHANGED <<organizations, wallets, pool, registry, coinsIn, poolHist>>

CloseBatch(b) ==
    LET r == close_payroll_batch(batches[b]) IN
    /\ b \in OpenBatches
    /\ batches' = [batches EXCEPT ![b] = r.batch]
    /\ coinsOut' = coinsOut + r.out
    /\ batchHist' = [batchHist EXCEPT ![b].closed = TRUE,
                                      ![b].refunded = r.out,
                                      ![b].consumed = {},
                                      ![b].discarded =
                                          Cardinality(DOMAIN batches[b].recipients)]
    /\ UNCHANGED <<organizations, wallets, pool, registry, coinsIn, poolHist>>

\* ------------------------------------------------------- pool actions
InitPool(denomination) ==
    LET r == init_pool(denomination) IN
    /\ ~pool.exists
    /\ pool' = r.pool
    /\ UNCHANGED <<organizations, wallets, batches, registry, coinsIn, coinsOut, batchHist, poolHist>>

PoolDeposit(amount, commitment) ==
    LET r == pool_deposit(pool, amount, commitment) IN
    /\ pool.exists
    /\ coinsIn + amount <= MaxCoinsIn
    /\ pool' = r.pool
    /\ IF r.res = "ok"
       THEN /\ coinsIn' = coinsIn + amount
            /\ poolHist' = [poolHist EXCEPT !.deposits[commitment] = @ + 1]
       ELSE UNCHANGED <<coinsIn, poolHist>>
    /\ UNCHANGED <<organizations, wallets, batches, registry, coinsOut, batchHist>>

PoolWithdraw(nullifier, recipient, proof, merkle_root) ==
    LET r == pool_withdraw(pool, nullifier, recipient, proof, merkle_root) IN
    /\ pool.exists
    /\ pool' = r.pool
    /\ coinsOut' = coinsOut + r.out
    /\ poolHist' = IF r.res = "ok"
                   THEN [poolHist EXCEPT !.withdrawals[nullifier] = @ + 1]
                   ELSE poolHist
    /\ UNCHANGED <<organizations, wallets, batches, registry, coinsIn, batchHist>>

UpdateMerkleRoot(new_root) ==
    /\ pool.exists
    /\ pool' = update_merkle_root(pool, new_root)
    /\ UNCHANGED <<organizations, wallets, batches, registry, coinsIn, coinsOut, batchHist, poolHist>>

\* --------------------------------------------------- registry actions
RegisterOrganization(employee_cap, spend_limit, sender) ==
    LET r == register_organization(organizations, employee_cap, spend_limit, sender) IN
    /\ organizations' = r.organizations
    /\ UNCHANGED <<wallets, batches, pool, registry, coinsIn, coinsOut, batchHist, poolHist>>

AddEmployee(org_admin, employee, wallet, role, caller) ==
    LET r == add_employee(organizations, org_admin, employee, wallet, role, caller) IN
    /\ organizations' = r.organizations
    /\ UNCHANGED <<wallets, batches, pool, registry, coinsIn, coinsOut, batchHist, poolHist>>

UpdateEmployeeStatus(org_admin, employee, active, caller) ==
    LET r == update_employee_status(organizations, org_admin, employee, active, caller) IN
    /\ organizations' = r.organizations
    /\ UNCHANGED <<wallets, batches, pool, registry, coinsIn, coinsOut, batchHist, poolHist>>

RecordDeposit(org_admin, amount, caller) ==
    LET r == record_deposit(organizations, org_admin, amount, caller) IN
    /\ r.organizations[org_admin].treasury.total_deposited <= MaxTotal
    /\ organizations' = r.organizations
    /\ UNCHANGED <<wallets, batches, pool, registry, coinsIn, coinsOut, batchHist, poolHist>>

RecordWithdrawal(org_admin, amount, caller) ==
    LET r == record_withdrawal(organizations, org_admin, amount, caller) IN
    /\ organizations' = r.organizations
    /\ UNCHANGED <<wallets, batches, pool, registry, coinsIn, coinsOut, batchHist, poolHist>>

\* ------------------------------------------------------ specifications
\* The calls with their arguments drawn from the given sets: wallet ids W,
\* batch ids B, coin values and amounts A, commitments C, nullifiers N,
\* proofs P, roots R.
WalletCreate(W) ==
    \E w \in W, owner \in Addr, organization \in Orgs :
        CreateWallet(w, owner, organization)

WalletMoney(W, A) ==
    \/ \E w \in W, amount \in A : Deposit(w, amount)
    \/ \E w \in W, amount \in A, caller \in Addr : Withdraw(w, amount, caller)
    \/ \E f \in W, t \in W, amount \in A, caller \in Addr :
           TransferFunds(f, t, amount, caller)

BatchOps(B, W, A) ==
    \/ \E b \in B, organization \in Orgs, amount \in A :
           CreateBatch(b, organization, amount)
    \/ \E b \in B, employee \in Addr, amount \in A :
           AddToBatch(b, employee, amount)
    \/ \E b \in B, w \in W, executor \in Admins : ExecuteSingle(b, w, executor)
    \/ \E b \in B, w \in W : BatchExecute(b, w)
    \/ \E b \in B : CloseBatch(b)

PoolOps(A, C, N, P, R) ==
    \/ \E denomination \in A : InitPool(denomination)
    \/ \E amount \in A, commitment \in C : PoolDeposit(amount, commitment)
    \/ \E nullifier \in N, recipient \in Addr, proof \in P, merkle_root \in R :
           PoolWithdraw(nullifier, recipient, proof, merkle_root)
    \/ \E new_root \in R : UpdateMerkleRoot(new_root)

\* The whole ledger: two wallets, one batch, the pool.
Next ==
    \/ WalletCreate(WalletIds) \/ WalletMoney(WalletIds, {0, 1})
    \/ BatchOps({1}, WalletIds, {0, 1})
    \/ PoolOps({0, 1}, {"c1"}, {"n1"}, {"p1"}, {EmptyRoot, "r1"})

Spec == Init /\ [][Next]_vars

\* The wallets.
WalletNext == WalletCreate(WalletIds) \/ WalletMoney(WalletIds, Amounts)

SpecWallet == Init /\ [][WalletNext]_vars

\* The batches, the payroll registry and the wallets they pay into.
BatchNext == WalletCreate(WalletIds) \/ BatchOps(BatchIds, WalletIds, Amounts)

SpecBatch == Init /\ [][BatchNext]_vars

\* One batch filled up to MAX_BATCH_SIZE.  The employees are numbered; they
\* are interchangeable, so the batch takes them in the order 1, 2, ...: a call
\* names the employee inserted last or the next one, with 0 or 1 as amount.
Employees == 1 .. (MAX_BATCH_SIZE + 1)

NextRecipients(b) ==
    LET k == Cardinality(DOMAIN batches[b].recipients) IN {k, k + 1} \cap Employees

FillNext ==
    \/ \E organization \in Orgs, amount \in {0, 1} : CreateBatch(1, organization, amount)
    \/ \E employee \in NextRecipients(1), amount \in {0, 1} :
           AddToBatch(1, employee, amount)
    \/ CloseBatch(1)

SpecFill == Init /\ [][FillNext]_vars

\* The privacy pool.
PoolNext == PoolOps(Amounts, Commitments, Nullifiers, Proofs, Roots)

SpecPool == Init /\ [][PoolNext]_vars

\* The organization registry: two senders, each of which can register an
\* organization and call every function on either organization.
Caps == {0, 1, 2}
Limits == {0, 1, 2}
WalletAddrs == {"w1", "w2"}
Roles == {"Engineer", "Manager"}

\* The registry calls with senders and organization keys S, caps C, limits L,
\* employees E and amounts A.
RegistryOps(S, C, L, E, A) ==
    \/ \E employee_cap \in C, spend_limit \in L, sender \in S :
           RegisterOrganization(employee_cap, spend_limit, sender)
    \/ \E org_admin \in S, employee \in E, caller \in S :
           AddEmployee(org_admin, employee, "w1", "Engineer", caller)
    \/ \E org_admin \in S, employee \in E, active \in BOOLEAN, caller \in S :
           UpdateEmployeeStatus(org_admin, employee, active, caller)
    \/ \E org_admin \in S, amount \in A, caller \in S :
           RecordDeposit(org_admin, amount, caller)
    \/ \E org_admin \in S, amount \in A, caller \in S :
           RecordWithdrawal(org_admin, amount, caller)

RegistryNext == RegistryOps(OrgAdmins, Caps, Limits, Addr, Amounts)

SpecRegistry == Init /\ [][RegistryNext]_vars

\* All four modules, every call with arguments that let it succeed: two
\* wallets that take coins of 2, one batch and the pool that take coins of 1,
\* and one organization with one employee and a spend limit of 2.
AllNext ==
    \/ WalletCreate(WalletIds) \/ WalletMoney(WalletIds, {2})
    \/ BatchOps({1}, WalletIds, {1})
    \/ PoolOps({1}, {"c1"}, {"n1"}, {"p1"}, {EmptyRoot})
    \/ RegistryOps({"a1"}, {1}, {2}, {"e1"}, {2})

SpecAll == Init /\ [][AllNext]_vars

\* ============================================================== claims
WalletsBalance == SumOver([w \in WalletIds |-> wallets[w].balance], WalletIds)
BatchesBalance == SumOver([b \in BatchIds |-> batches[b].balance], BatchIds)

\* C1: value is conserved across the whole ledger: the balances of all
\* wallets, all open batches and the pool, plus every amount handed back to
\* an outside party, equal the amounts brought in from outside.
C1_ValueConserved ==
    WalletsBalance + BatchesBalance + pool.balance + coinsOut = coinsIn

\* Coins have left through a wallet withdraw, a pool withdraw and the refund
\* of a closed batch.
C1_Witness ==
    /\ \E w \in WalletIds : wallets[w].total_withdrawn > 0
    /\ pool.total_withdrawals > 0
    /\ \E b \in BatchIds : batchHist[b].closed /\ batchHist[b].refunded > 0

\* C2: for every wallet, balance == total_deposited - total_withdrawn and
\* balance >= 0, whatever sequence of create_wallet, deposit, withdraw,
\* transfer_funds and execute_payroll_single led to the state.
C2_WalletBalanceIsNetOfTotals ==
    \A w \in WalletIds :
        /\ wallets[w].balance = wallets[w].total_deposited - wallets[w].total_withdrawn
        /\ wallets[w].balance >= 0

\* The only coin that came in funded a batch and nothing went out: one wallet
\* was paid by execute_payroll_single and has passed part of it on to the
\* other by transfer_funds.
C2_Witness ==
    /\ registry.next_run_id > 0
    /\ coinsIn = batchHist[1].funding
    /\ coinsOut = 0
    /\ \E f \in WalletIds, t \in WalletIds :
          /\ f # t
          /\ wallets[f].total_withdrawn > 0
          /\ wallets[t].total_deposited > 0

PoolDeposits == SumOver(poolHist.deposits, Commitments)
PoolWithdrawals == SumOver(poolHist.withdrawals, Nullifiers)

\* C3: with denomination D, after n successful deposits and m successful
\* withdrawals the pool balance is n*D - m*D, and m <= n.
C3_PoolConservation ==
    pool.exists =>
        /\ pool.balance =
              PoolDeposits * pool.denomination - PoolWithdrawals * pool.denomination
        /\ PoolWithdrawals <= PoolDeposits

C3_Witness ==
    /\ pool.exists
    /\ pool.denomination = 1
    /\ PoolDeposits = 3
    /\ PoolWithdrawals = 2

\* C4: a nullifier is spent at most once: at most one withdraw per nullifier
\* succeeds, a withdraw with a spent nullifier aborts with E_NULLIFIER_SPENT
\* whatever recipient, proof and root it carries and leaves the pool as it
\* is, and a spent nullifier stays spent.
C4_SpentNullifierRejected ==
    \A n \in Nullifiers :
        /\ poolHist.withdrawals[n] <= 1
        /\ poolHist.withdrawals[n] = 1 => n \in pool.nullifiers
        /\ n \in pool.nullifiers =>
              \A recipient \in Addr, proof \in Proofs, root \in Roots :
                  pool_withdraw(pool, n, recipient, proof, root) =
                      [res |-> E_NULLIFIER_SPENT, pool |-> pool, out |-> 0]

C4_NullifierOnce ==
    /\ []C4_SpentNullifierRejected
    /\ [][pool.nullifiers \subseteq pool'.nullifiers]_vars

\* A nullifier is spent while the pool still holds a denomination and the
\* root is the one a replay would claim.
C4_Witness ==
    /\ pool.exists
    /\ pool.nullifiers # {}
    /\ pool.balance >= pool.denomination
    /\ pool.merkle_root = "r1"

\* C5: a commitment is recorded at most once: a deposit of exactly the
\* denomination with a recorded commitment aborts with E_COMMITMENT_EXISTS
\* and leaves balance, commitments and total_deposits as they are, and
\* commitments are never removed.
C5_RecordedCommitmentRejected ==
    \A c \in Commitments :
        /\ poolHist.deposits[c] <= 1
        /\ poolHist.deposits[c] = 1 => c \in pool.commitments
        /\ c \in pool.commitments =>
              pool_deposit(pool, pool.denomination, c) =
                  [res |-> E_COMMITMENT_EXISTS, pool |-> pool]

C5_CommitmentOnce ==
    /\ []C5_RecordedCommitmentRejected
    /\ [][pool.commitments \subseteq pool'.commitments]_vars

\* A commitment is recorded and the coin budget still allows the deposit to
\* be made again.
C5_Witness ==
    /\ pool.exists
    /\ pool.commitments # {}
    /\ coinsIn + pool.denomination <= MaxCoinsIn

PendingSum(b) == SumOver(batches[b].recipients, DOMAIN batches[b].recipients)

\* C6 as stated: for every batch, in every reachable state, the sum of the
\* amounts of its pending recipients is <= its escrowed balance.
C6_PendingWithinEscrow ==
    \A b \in BatchIds : PendingSum(b) <= batches[b].balance

\* C6 as amended: the sum of the pending amounts is <= the escrowed balance
\* for every batch whose inserted amounts (total_amount) stay within its
\* funding; add_to_batch itself does not compare the amount with the balance.
C6_PendingWithinEscrowWhenFunded ==
    \A b \in BatchIds :
        (batches[b].open /\ batches[b].total_amount <= batchHist[b].funding)
            => PendingSum(b) <= batches[b].balance

\* A batch within its funding with one recipient paid and one still pending.
C6_Witness ==
    \E b \in BatchIds :
        /\ batches[b].open
        /\ batches[b].total_amount <= batchHist[b].funding
        /\ batchHist[b].paid > 0
        /\ DOMAIN batches[b].recipients # {}

\* C7: for a batch funded with F whose recipients total T <= F, every
\* execute_payroll_single / batch_execute_payroll for a pending recipient
\* succeeds, and once every recipient has been paid the balance is F - T.
C7_BatchConservation ==
    \A b \in BatchIds :
        (batches[b].open /\ batches[b].total_amount <= batchHist[b].funding) =>
            /\ \A w \in Wallets, executor \in Admins :
                  wallets[w].owner \in DOMAIN batches[b].recipients =>
                      /\ execute_payroll_single(registry, batches[b], wallets[w],
                                                executor).res = "ok"
                      /\ batch_execute_payroll(batches[b], wallets[w]).res = "ok"
            /\ DOMAIN batches[b].recipients = {} =>
                  batches[b].balance =
                      batchHist[b].funding - batches[b].total_amount

\* Two recipients of one batch have been paid, one by each function, and
\* nobody is pending.
C7_Witness ==
    \E b \in BatchIds :
        /\ batches[b].open
        /\ DOMAIN batches[b].recipients = {}
        /\ batches[b].total_amount = 2
        /\ batchHist[b].paid = 2
        /\ batchHist[b].consumed = Addr
        /\ registry.next_run_id = 1
        /\ coinsOut = 1

\* C8: a successful execute_payroll_single for a wallet whose owner E is
\* pending with amount a removes E from the recipients, lowers the batch
\* balance by a, raises the wallet's balance and total_deposited by a and
\* appends one PayrollRun with total_amount a, all in one step; no other
\* batch, wallet or run record changes.
C8_ExecuteSingleStep(b, w, executor) ==
    LET E == wallets[w].owner
        a == batches[b].recipients[E]
        id == registry.next_run_id
    IN /\ E \in DOMAIN batches[b].recipients
       /\ DOMAIN batches'[b].recipients = DOMAIN batches[b].recipients \ {E}
       /\ \A x \in DOMAIN batches'[b].recipients :
              batches'[b].recipients[x] = batches[b].recipients[x]
       /\ batches'[b].balance = batches[b].balance - a
       /\ batches'[b].total_amount = batches[b].total_amount
       /\ wallets'[w].balance = wallets[w].balance + a
       /\ wallets'[w].total_deposited = wallets[w].total_deposited + a
       /\ wallets'[w].total_withdrawn = wallets[w].total_withdrawn
       /\ wallets'[w].owner = E
       /\ DOMAIN registry'.payroll_runs = DOMAIN registry.payroll_runs \cup {id}
       /\ id \notin DOMAIN registry.payroll_runs
       /\ registry'.payroll_runs[id].total_amount = a
       /\ \A r \in DOMAIN registry.payroll_runs :
              registry'.payroll_runs[r] = registry.payroll_runs[r]
       /\ \A b2 \in BatchIds \ {b} : batches'[b2] = batches[b2]
       /\ \A w2 \in WalletIds \ {w} : wallets'[w2] = wallets[w2]

C8_ExecuteSingleEffect ==
    [][\A b \in BatchIds, w \in WalletIds, executor \in Admins :
          ( /\ ExecuteSingle(b, w, executor)
            /\ execute_payroll_single(registry, batches[b], wallets[w],
                                      executor).res = "ok" )
              => C8_ExecuteSingleStep(b, w, executor)]_vars

\* A run has been recorded while a second batch with a pending recipient and
\* a second wallet exist.
C8_Witness ==
    /\ registry.next_run_id > 0
    /\ \A b \in BatchIds : batches[b].open
    /\ \A w \in WalletIds : wallets[w].exists
    /\ \E b \in BatchIds : batchHist[b].paid > 0 /\ DOMAIN batches[b].recipients # {}
    /\ \E b \in BatchIds : batchHist[b].paid = 0 /\ DOMAIN batches[b].recipients # {}

\* C9: a pending recipient is consumed once: after a successful
\* execute_payroll_single or batch_execute_payroll for employee E on a batch,
\* and as long as E has not been inserted again, both functions abort with
\* E_PAYROLL_NOT_FOUND for E on that batch and change nothing.
C9_ConsumedOnce ==
    \A b \in BatchIds, w \in Wallets, executor \in Admins :
        (batches[b].open /\ wallets[w].owner \in batchHist[b].consumed) =>
            /\ execute_payroll_single(registry, batches[b], wallets[w], executor) =
                  [res |-> E_PAYROLL_NOT_FOUND, registry |-> registry,
                   batch |-> batches[b], wallet |-> wallets[w]]
            /\ batch_execute_payroll(batches[b], wallets[w]) =
                  [res |-> E_PAYROLL_NOT_FOUND, batch |-> batches[b], out |-> 0]

\* An employee has been paid from a batch that still holds coins and another
\* pending recipient.
C9_Witness ==
    \E b \in BatchIds, w \in Wallets :
        /\ batches[b].open
        /\ wallets[w].owner \in batchHist[b].consumed
        /\ batches[b].balance > 0
        /\ DOMAIN batches[b].recipients # {}

\* C10: transfer_funds is one atomic transition: on success from.balance and
\* from's (deposited - withdrawn) fall by amount and to.balance and to's
\* (deposited - withdrawn) rise by amount; when the caller is not from.owner,
\* amount <= 0 or from.balance < amount it aborts and neither wallet changes.
\* No step updates only one of the two wallets.
Net(wallet) == wallet.total_deposited - wallet.total_withdrawn

C10_TransferOutcome ==
    \A f \in Wallets, t \in Wallets, amount \in Amounts, caller \in Addr :
        f # t =>
            LET r == transfer_funds(wallets[f], wallets[t], amount, caller) IN
            IF caller = wallets[f].owner /\ amount > 0 /\ wallets[f].balance >= amount
            THEN /\ r.res = "ok"
                 /\ r.from.balance = wallets[f].balance - amount
                 /\ Net(r.from) = Net(wallets[f]) - amount
                 /\ r.to.balance = wallets[t].balance + amount
                 /\ Net(r.to) = Net(wallets[t]) + amount
            ELSE /\ r.res # "ok"
                 /\ r.from = wallets[f]
                 /\ r.to = wallets[t]

\* In a step that moves no coin in or out of the ledger and creates no
\* wallet, either no wallet changes or exactly two do, by opposite amounts.
C10_NoHalfTransfer ==
    ( /\ coinsIn' = coinsIn
      /\ coinsOut' = coinsOut
      /\ \A w \in WalletIds : wallets'[w].exists = wallets[w].exists )
        => LET changed == {w \in WalletIds : wallets'[w] # wallets[w]} IN
           \/ changed = {}
           \/ \E f \in changed, t \in changed :
                 /\ f # t
                 /\ changed = {f, t}
                 /\ wallets'[f].balance < wallets[f].balance
                 /\ wallets'[f].balance + wallets'[t].balance =
                       wallets[f].balance + wallets[t].balance

C10_TransferAtomic ==
    /\ []C10_TransferOutcome
    /\ [][C10_NoHalfTransfer]_vars

\* Nothing has left the ledger, yet one wallet has been debited and the
\* other holds what it received.
C10_Witness ==
    /\ coinsOut = 0
    /\ \E f \in WalletIds, t \in WalletIds :
          /\ f # t
          /\ wallets[f].total_withdrawn > 0
          /\ wallets[t].total_deposited = wallets[f].total_withdrawn
          /\ wallets[t].balance > 0

\* The proof oracle of the specification, verify(proof, nullifier, root):
\* an oracle that accepts the proof "p1" and rejects every other one.
oracle_verify(proof, nullifier, root) == proof = "p1"

\* C11 as stated: a withdraw whose proof the proof oracle rejects, with an
\* unspent nullifier, the current root and a pool that holds a denomination,
\* aborts with E_INVALID_PROOF: the nullifier is not marked spent, balance
\* and total_withdrawals are unchanged and nothing goes to the recipient.
C11_RejectedProofFails ==
    (pool.exists /\ pool.balance >= pool.denomination) =>
        \A n \in Nullifiers \ pool.nullifiers, recipient \in Addr, proof \in Proofs :
            ~oracle_verify(proof, n, pool.merkle_root) =>
                pool_withdraw(pool, n, recipient, proof, pool.merkle_root) =
                    [res |-> E_INVALID_PROOF, pool |-> pool, out |-> 0]

\* C12: a withdraw succeeds only if the claimed root equals pool.merkle_root
\* at the moment of the call; with an unspent nullifier and any other claimed
\* root it aborts with E_MERKLE_ROOT_MISMATCH and changes nothing.
C12_RootMustMatch ==
    pool.exists =>
        \A n \in Nullifiers, recipient \in Addr, proof \in Proofs, root \in Roots :
            LET r == pool_withdraw(pool, n, recipient, proof, root) IN
            /\ r.res = "ok" => root = pool.merkle_root
            /\ (n \notin pool.nullifiers /\ root # pool.merkle_root) =>
                  r = [res |-> E_MERKLE_ROOT_MISMATCH, pool |-> pool, out |-> 0]

\* The root has been replaced since the pool was created, a withdrawal has
\* gone through, and the pool still holds a denomination and knows an unspent
\* nullifier, so that only the claimed root decides the next withdraw.
C12_Witness ==
    /\ pool.exists
    /\ pool.merkle_root = "r2"
    /\ pool.total_withdrawals > 0
    /\ pool.balance >= pool.denomination
    /\ Nullifiers \ pool.nullifiers # {}

\* C17: withdraw aborts with E_UNAUTHORIZED unless the caller is the owner
\* of the wallet and, for the owner and an amount > 0, with
\* E_INSUFFICIENT_BALANCE unless balance >= amount; the wallet is then
\* unchanged and nothing is released.  On success balance falls by amount,
\* total_withdrawn rises by amount and exactly amount goes to the caller.
C17_WithdrawOutcome ==
    \A w \in Wallets, amount \in Amounts, caller \in Addr :
        LET r == withdraw(wallets[w], amount, caller)
            failed(code) == r = [res |-> code, wallet |-> wallets[w], out |-> 0]
        IN /\ caller # wallets[w].owner => failed(E_W_UNAUTHORIZED)
           /\ (caller = wallets[w].owner /\ amount > 0 /\ wallets[w].balance < amount)
                 => failed(E_W_INSUFFICIENT_BALANCE)
           /\ (caller = wallets[w].owner /\ amount > 0 /\ wallets[w].balance >= amount)
                 => /\ r.res = "ok"
                    /\ r.wallet = [wallets[w] EXCEPT
                                     !.balance = wallets[w].balance - amount,
                                     !.total_withdrawn = wallets[w].total_withdrawn + amount]
                    /\ r.out = amount

\* A Withdraw step releases amount when the call succeeds and nothing when it
\* aborts, and touches no other wallet.
C17_WithdrawStep ==
    \A w \in WalletIds, amount \in Amounts, caller \in Addr :
        Withdraw(w, amount, caller) =>
            /\ \A w2 \in WalletIds \ {w} : wallets'[w2] = wallets[w2]
            /\ IF withdraw(wallets[w], amount, caller).res = "ok"
               THEN /\ coinsOut' = coinsOut + amount
                    /\ wallets'[w].balance = wallets[w].balance - amount
                    /\ wallets'[w].total_withdrawn = wallets[w].total_withdrawn + amount
               ELSE /\ coinsOut' = coinsOut
                    /\ wallets'[w] = wallets[w]

C17_WithdrawContract ==
    /\ []C17_WithdrawOutcome
    /\ [][C17_WithdrawStep]_vars

\* The owner has withdrawn part of a wallet's balance: a second withdraw can
\* succeed, exceed the balance, or come from the other address.
C17_Witness ==
    \E w \in WalletIds :
        /\ wallets[w].exists
        /\ wallets[w].total_withdrawn = 1
        /\ wallets[w].balance = 1
        /\ coinsOut = 1

\* C20: batch_execute_payroll has the preconditions of
\* execute_payroll_single and the same effect on the batch (recipient
\* removed, balance reduced by the pending amount), but hands the payment
\* back to the caller: the wallet passed in keeps its balance and totals, no
\* PayrollRun is appended and next_run_id is unchanged.
C20_SameAsSingleOnBatch ==
    \A b \in OpenBatches, w \in Wallets, executor \in Admins :
        LET s == execute_payroll_single(registry, batches[b], wallets[w], executor)
            r == batch_execute_payroll(batches[b], wallets[w])
            E == wallets[w].owner
        IN /\ r.res = s.res
           /\ r.batch = s.batch
           /\ r.res = "ok" =>
                 /\ E \in DOMAIN batches[b].recipients
                 /\ r.out = batches[b].recipients[E]
                 /\ r.batch.balance = batches[b].balance - r.out
                 /\ r.batch.recipients = vec_map_remove(batches[b].recipients, E)
           /\ r.res # "ok" => r.out = 0

C20_BatchExecuteStep ==
    \A b \in BatchIds, w \in WalletIds :
        BatchExecute(b, w) =>
            /\ wallets' = wallets
            /\ registry' = registry
            /\ coinsOut' = coinsOut + batch_execute_payroll(batches[b], wallets[w]).out
            /\ \A b2 \in BatchIds \ {b} : batches'[b2] = batches[b2]

C20_BatchExecuteReturnsPayment ==
    /\ []C20_SameAsSingleOnBatch
    /\ [][C20_BatchExecuteStep]_vars

\* A payment has been handed back by batch_execute_payroll and none by
\* execute_payroll_single: no run is recorded, the wallet of the paid
\* employee is empty, and another recipient is still pending.
C20_Witness ==
    \E b \in BatchIds, w \in WalletIds :
        /\ batches[b].open
        /\ wallets[w].exists
        /\ wallets[w].owner \in batchHist[b].consumed
        /\ batchHist[b].paid > 0
        /\ coinsOut = batchHist[b].paid
        /\ wallets[w].total_deposited = 0
        /\ registry.next_run_id = 0
        /\ DOMAIN batches[b].recipients # {}

BatchSize(b) == Cardinality(DOMAIN batches[b].recipients)

\* C18 as stated: add_to_batch with amount > 0 for an employee who is already
\* a pending recipient of the batch does not fail and leaves the employee's
\* pending amount, the recipient set, total_amount and the balance unchanged.
C18_DuplicateIsNoOp ==
    \A b \in OpenBatches, amount \in Amounts :
        amount > 0 =>
            \A employee \in DOMAIN batches[b].recipients :
                add_to_batch(batches[b], employee, amount) =
                    [res |-> "ok", batch |-> batches[b]]

\* C18 as amended: the call is a no-op that does not fail while the batch has
\* fewer than MAX_BATCH_SIZE pending recipients; with MAX_BATCH_SIZE pending
\* recipients it aborts with E_BATCH_TOO_LARGE.  The batch is unchanged either
\* way.
C18_DuplicateIsNoOpBelowMax ==
    \A b \in OpenBatches, amount \in Amounts :
        amount > 0 =>
            \A employee \in DOMAIN batches[b].recipients :
                add_to_batch(batches[b], employee, amount) =
                    [res |-> IF BatchSize(b) < MAX_BATCH_SIZE
                             THEN "ok" ELSE E_BATCH_TOO_LARGE,
                     batch |-> batches[b]]

\* The batch is full: the employee inserted last is pending and the size
\* check comes before the lookup.
C18_Witness ==
    /\ batches[1].open
    /\ BatchSize(1) = MAX_BATCH_SIZE
    /\ MAX_BATCH_SIZE \in DOMAIN batches[1].recipients

\* C19: a batch never has more than MAX_BATCH_SIZE (500) pending recipients:
\* add_to_batch on a batch with 500 pending recipients aborts (with
\* E_BATCH_TOO_LARGE when amount > 0) and changes nothing.
C19_BatchSizeCapped ==
    \A b \in BatchIds :
        /\ BatchSize(b) <= MAX_BATCH_SIZE
        /\ BatchSize(b) = MAX_BATCH_SIZE =>
              \A employee \in Employees, amount \in Amounts :
                  LET r == add_to_batch(batches[b], employee, amount) IN
                  /\ r.batch = batches[b]
                  /\ r.res # "ok"
                  /\ amount > 0 => r.res = E_BATCH_TOO_LARGE

\* 500 employees are pending and employee 501 is not.
C19_Witness ==
    /\ batches[1].open
    /\ DOMAIN batches[1].recipients = 1 .. MAX_BATCH_SIZE
    /\ batches[1].total_amount = MAX_BATCH_SIZE

Registered == {a \in OrgAdmins : organizations[a].exists}

\* C13: for every organization, after any sequence of add_employee calls,
\* successful or aborted, employee_count is the number of distinct employees
\* in the roster and employee_count <= employee_cap.
C13_EmployeeCountIsRosterSize ==
    \A a \in Registered :
        /\ organizations[a].employee_count =
              Cardinality(DOMAIN organizations[a].employees)
        /\ organizations[a].employee_count <= organizations[a].employee_cap

\* One organization is full with two employees, the other is full with one.
C13_Witness ==
    /\ Registered = OrgAdmins
    /\ \E a \in OrgAdmins :
          /\ organizations[a].employee_cap = 2
          /\ organizations[a].employee_count = 2
    /\ \E a \in OrgAdmins :
          /\ organizations[a].employee_cap = 1
          /\ organizations[a].employee_count = 1

\* C14 as stated: add_employee sent by the admin for an employee already in
\* the roster aborts with E_EMPLOYEE_EXISTS, and roster, profile and
\* employee_count are unchanged.
C14_DuplicateEmployeeRejected ==
    \A a \in Registered, wallet \in WalletAddrs, role \in Roles :
        \A employee \in DOMAIN organizations[a].employees :
            add_employee(organizations, a, employee, wallet, role, a) =
                [res |-> E_EMPLOYEE_EXISTS, organizations |-> organizations]

\* C14 as amended: the call aborts with E_EMPLOYEE_EXISTS while
\* employee_count < employee_cap and with E_EMPLOYEE_CAP once the
\* organization is at its cap (the cap is asserted first); roster, profile
\* and employee_count are unchanged either way.
C14_DuplicateEmployeeRejectedBelowCap ==
    \A a \in Registered, wallet \in WalletAddrs, role \in Roles :
        \A employee \in DOMAIN organizations[a].employees :
            add_employee(organizations, a, employee, wallet, role, a) =
                [res |-> IF organizations[a].employee_count <
                              organizations[a].employee_cap
                         THEN E_EMPLOYEE_EXISTS ELSE E_EMPLOYEE_CAP,
                 organizations |-> organizations]

\* One organization has an employee and room for another, one is at its cap.
C14_Witness ==
    /\ \E a \in Registered :
          /\ organizations[a].employee_count = 1
          /\ organizations[a].employee_cap = 2
    /\ \E a \in Registered :
          /\ organizations[a].employee_count = 1
          /\ organizations[a].employee_cap = 1

\* C15: add_employee, update_employee_status, record_deposit and
\* record_withdrawal sent on an existing organization by anyone but its admin
\* abort with E_NOT_ADMIN and leave roster, employee_count and treasury
\* unchanged.
C15_OnlyAdminMutates ==
    \A a \in Registered :
        /\ organizations[a].admin = a
        /\ \A caller \in OrgAdmins \ {organizations[a].admin} :
              LET refused == [res |-> E_NOT_ADMIN, organizations |-> organizations] IN
              /\ \A employee \in Addr, wallet \in WalletAddrs, role \in Roles :
                    add_employee(organizations, a, employee, wallet, role, caller) = refused
              /\ \A employee \in Addr, active \in BOOLEAN :
                    update_employee_status(organizations, a, employee, active, caller)
                        = refused
              /\ \A amount \in Amounts :
                    /\ record_deposit(organizations, a, amount, caller) = refused
                    /\ record_withdrawal(organizations, a, amount, caller) = refused

\* An organization with room in its roster, an active employee and deposits
\* that can be withdrawn, while the other sender is an admin of its own
\* organization: each of the four calls would go through for the admin.
C15_Witness ==
    \E a \in Registered :
        /\ Registered = OrgAdmins
        /\ organizations[a].employee_count = 1
        /\ organizations[a].employee_cap = 2
        /\ organizations[a].treasury.total_deposited = 1
        /\ organizations[a].treasury.total_withdrawn = 0
        /\ organizations[a].treasury.spend_limit = 2

\* C16: for every organization, after any sequence of record_deposit and
\* record_withdrawal calls, total_deposited - total_withdrawn <= spend_limit.
C16_TreasuryWithinLimit ==
    \A a \in Registered :
        LET t == organizations[a].treasury IN
        /\ t.total_deposited - t.total_withdrawn <= t.spend_limit
        /\ t.total_withdrawn <= t.total_deposited

\* The treasury is at its limit for the second time: it has been filled,
\* drawn down and filled again.
C16_Witness ==
    \E a \in Registered :
        /\ organizations[a].treasury.spend_limit = 1
        /\ organizations[a].treasury.total_deposited = 2
        /\ organizations[a].treasury.total_withdrawn = 1

\* C21: close_payroll_batch destroys the batch and hands its whole remaining
\* balance to the caller; recipients still pending are discarded and receive
\* nothing; a closed batch is terminal: no add_to_batch,
\* execute_payroll_single, batch_execute_payroll or close_payroll_batch acts
\* on it afterwards.  For every closed batch, funding == payouts + refund.
C21_ClosedBatchSettled ==
    \A b \in BatchIds :
        batchHist[b].closed =>
            /\ batches[b] = NoBatch
            /\ b \notin OpenBatches
            /\ b \notin FreeBatches
            /\ batchHist[b].funding = batchHist[b].paid + batchHist[b].refunded

C21_CloseStep ==
    \A b \in BatchIds :
        /\ CloseBatch(b) =>
              /\ coinsOut' = coinsOut + batches[b].balance
              /\ batchHist'[b].refunded = batches[b].balance
              /\ batches'[b] = NoBatch
              /\ wallets' = wallets
              /\ registry' = registry
              /\ \A b2 \in BatchIds \ {b} : batches'[b2] = batches[b2]
        /\ batchHist[b].closed =>
              /\ batches'[b] = batches[b]
              /\ batchHist'[b] = batchHist[b]

C21_CloseIsTerminal ==
    /\ []C21_ClosedBatchSettled
    /\ [][C21_CloseStep]_vars

\* A batch was closed after one payout, with a recipient still pending and
\* coins left in escrow, and the other batch has been used since.
C21_Witness ==
    \E b \in BatchIds, b2 \in BatchIds :
        /\ batchHist[b].closed
        /\ batchHist[b].paid > 0
        /\ batchHist[b].refunded > 0
        /\ batchHist[b].discarded > 0
        /\ batches[b2].open
        /\ DOMAIN batches[b2].recipients # {}

C23_RegisterOrganization ==
    \A sender \in OrgAdmins, employee_cap \in Caps, spend_limit \in Limits :
        LET r == register_organization(organizations, employee_cap, spend_limit, sender)
        IN IF employee_cap > 0 /\ spend_limit > 0
           THEN IF ~organizations[sender].exists
                THEN /\ r.res = "ok"
                     /\ r.organizations[sender] =
                           [exists |-> TRUE, admin |-> sender, employees |-> EmptyMap,
                            employee_cap |-> employee_cap, employee_count |-> 0,
                            treasury |-> [total_deposited |-> 0, total_withdrawn |-> 0,
                                          spend_limit |-> spend_limit]]
                     /\ \A a \in OrgAdmins \ {sender} :
                           r.organizations[a] = organizations[a]
                ELSE r = [res |-> E_ORG_EXISTS, organizations |-> organizations]
           ELSE /\ r.res \in {E_INVALID_EMPLOYEE_CAP, E_INVALID_SPEND_LIMIT}
                /\ r.organizations = organizations

\* One sender has an organization with an employee and a treasury in use,
\* the other has none.
C23_Witness ==
    \E a \in OrgAdmins, a2 \in OrgAdmins :
        /\ organizations[a].exists
        /\ organizations[a].employee_count = 1
        /\ organizations[a].treasury.total_deposited > 0
        /\ ~organizations[a2].exists

\* C24: update_merkle_root overwrites the stored root with the given value
\* unconditionally, whoever sends it and whatever the value, and changes
\* nothing else: balance, commitments, nullifiers, denomination,
\* total_deposits and total_withdrawals are unchanged.
C24_RootOverwritten ==
    pool.exists =>
        \A new_root \in Roots :
            LET p == update_merkle_root(pool, new_root) IN
            /\ p.merkle_root = new_root
            /\ p = [pool EXCEPT !.merkle_root = new_root]

C24_UpdateStep ==
    \A new_root \in Roots :
        UpdateMerkleRoot(new_root) =>
            /\ pool'.merkle_root = new_root
            /\ pool'.balance = pool.balance
            /\ pool'.commitments = pool.commitments
            /\ pool'.nullifiers = pool.nullifiers
            /\ pool'.denomination = pool.denomination
            /\ pool'.total_deposits = pool.total_deposits
            /\ pool'.total_withdrawals = pool.total_withdrawals
            /\ coinsIn' = coinsIn /\ coinsOut' = coinsOut

C24_UpdateMerkleRootOnlyRoot ==
    /\ []C24_RootOverwritten
    /\ [][C24_UpdateStep]_vars

\* The pool is in use (a commitment recorded, a nullifier spent, coins held)
\* and its root has been replaced.
C24_Witness ==
    /\ pool.exists
    /\ pool.merkle_root = "r1"
    /\ pool.commitments # {}
    /\ pool.nullifiers # {}
    /\ pool.balance > 0

\* C25: the run history is append-only with gap-free run_ids from 0: each
\* successful execute_payroll_single appends exactly one PayrollRun whose
\* run_id is the previous next_run_id, no run is modified or removed, the
\* number of runs equals next_run_id equals the number of successful
\* execute_payroll_single calls; aborted executions and
\* batch_execute_payroll append nothing.
C25_RunIdsGapFree ==
    /\ DOMAIN registry.payroll_runs = 0 .. (registry.next_run_id - 1)
    /\ Cardinality(DOMAIN registry.payroll_runs) = registry.next_run_id
    /\ \A id \in DOMAIN registry.payroll_runs : registry.payroll_runs[id].run_id = id

C25_SingleSucceeds ==
    \E b \in BatchIds, w \in WalletIds, executor \in Admins :
        /\ ExecuteSingle(b, w, executor)
        /\ execute_payroll_single(registry, batches[b], wallets[w], executor).res = "ok"

C25_RunStep ==
    /\ \A id \in DOMAIN registry.payroll_runs :
          /\ id \in DOMAIN registry'.payroll_runs
          /\ registry'.payroll_runs[id] = registry.payroll_runs[id]
    /\ IF C25_SingleSucceeds
       THEN /\ registry'.next_run_id = registry.next_run_id + 1
            /\ DOMAIN registry'.payroll_runs =
                  DOMAIN registry.payroll_runs \cup {registry.next_run_id}
            /\ registry'.payroll_runs[registry.next_run_id].run_id =
                  registry.next_run_id
       ELSE registry' = registry

C25_RunHistoryAppendOnly ==
    /\ []C25_RunIdsGapFree
    /\ [][C25_RunStep]_vars

\* Two runs are recorded, a payment has also gone out through
\* batch_execute_payroll, and a recipient is pending whose amount the batch
\* cannot cover, so that an execution can abort.
C25_Witness ==
    /\ registry.next_run_id = 2
    /\ coinsOut > 0
    /\ \E b \in BatchIds :
          /\ batchHist[b].paid > 0
          /\ \E e \in DOMAIN batches[b].recipients :
                batches[b].recipients[e] > batches[b].balance

\* C26: create_wallet always succeeds and each call creates a new, distinct
\* wallet with balance 0, total_deposited 0 and total_withdrawn 0, bound to
\* the sender as owner and to the given organization; repeated calls by the
\* same owner yield several independent wallets and leave every existing
\* wallet unchanged.
C26_NewWalletIsEmpty ==
    \A owner \in Addr, organization \in Orgs :
        create_wallet(owner, organization) =
            [exists |-> TRUE, owner |-> owner, organization |-> organization,
             balance |-> 0, total_deposited |-> 0, total_withdrawn |-> 0]

C26_CreateStep ==
    \A w \in WalletIds, owner \in Addr, organization \in Orgs :
        CreateWallet(w, owner, organization) =>
            /\ ~wallets[w].exists
            /\ wallets'[w].exists
            /\ wallets'[w].owner = owner
            /\ wallets'[w].organization = organization
            /\ wallets'[w].balance = 0
            /\ wallets'[w].total_deposited = 0
            /\ wallets'[w].total_withdrawn = 0
            /\ \A w2 \in WalletIds \ {w} : wallets'[w2] = wallets[w2]
            /\ coinsIn' = coinsIn /\ coinsOut' = coinsOut

C26_CreateWallet ==
    /\ []C26_NewWalletIsEmpty
    /\ [][C26_CreateStep]_vars

\* One owner has two wallets; the older one holds coins and has been
\* withdrawn from, the newer one is empty.
C26_Witness ==
    /\ wallets[1].exists /\ wallets[2].exists
    /\ wallets[1].owner = wallets[2].owner
    /\ wallets[1].balance > 0
    /\ wallets[1].total_withdrawn > 0
    /\ wallets[2].total_deposited = 0

\* C28: execute_payroll_single and batch_execute_payroll for a pending
\* employee whose amount exceeds the batch balance abort with
\* E_INSUFFICIENT_BALANCE and change nothing: the employee is still pending
\* with the same amount, and the batch balance, the wallet and the run
\* history are as before, although the entry is removed before the balance is
\* compared.
C28_UnderfundedPayoutAborts ==
    \A b \in OpenBatches, w \in Wallets, executor \in Admins :
        LET E == wallets[w].owner IN
        (E \in DOMAIN batches[b].recipients
            /\ batches[b].recipients[E] > batches[b].balance) =>
            /\ execute_payroll_single(registry, batches[b], wallets[w], executor) =
                  [res |-> E_P_INSUFFICIENT_BALANCE, registry |-> registry,
                   batch |-> batches[b], wallet |-> wallets[w]]
            /\ batch_execute_payroll(batches[b], wallets[w]) =
                  [res |-> E_P_INSUFFICIENT_BALANCE, batch |-> batches[b], out |-> 0]

C28_UnderfundedStep ==
    \A b \in BatchIds, w \in WalletIds, executor \in Admins :
        ( /\ ExecuteSingle(b, w, executor) \/ BatchExecute(b, w)
          /\ wallets[w].owner \in DOMAIN batches[b].recipients
          /\ batches[b].recipients[wallets[w].owner] > batches[b].balance )
            => UNCHANGED <<batches, wallets, registry, coinsOut>>

C28_UnderfundedPayoutChangesNothing ==
    /\ []C28_UnderfundedPayoutAborts
    /\ [][C28_UnderfundedStep]_vars

\* A batch that still holds coins has a pending recipient with a wallet whose
\* amount is above the balance.
C28_Witness ==
    \E b \in BatchIds, w \in WalletIds :
        /\ batches[b].open
        /\ wallets[w].exists
        /\ wallets[w].owner \in DOMAIN batches[b].recipients
        /\ batches[b].recipients[wallets[w].owner] > batches[b].balance
        /\ batches[b].balance > 0

Available(a) ==
    organizations[a].treasury.total_deposited - organizations[a].treasury.total_withdrawn

\* C29: record_deposit sent by the admin with an amount that would take
\* total_deposited - total_withdrawn above spend_limit aborts with
\* E_TREASURY_LIMIT and total_deposited keeps the value it had before the
\* call, although the amount is added before the limit is asserted.
C29_DepositOverLimitRolledBack ==
    \A a \in Registered, amount \in Amounts :
        Available(a) + amount > organizations[a].treasury.spend_limit =>
            LET r == record_deposit(organizations, a, amount, a) IN
            /\ r.res = E_TREASURY_LIMIT
            /\ r.organizations[a].treasury.total_deposited =
                  organizations[a].treasury.total_deposited
            /\ r.organizations = organizations

\* The treasury has one unit of room left, deposits have been recorded
\* before, and a deposit of two is over the limit.
C29_Witness ==
    \E a \in Registered :
        /\ organizations[a].treasury.spend_limit = 2
        /\ organizations[a].treasury.total_deposited = 1
        /\ organizations[a].treasury.total_withdrawn = 0

\* C30: record_withdrawal sent by the admin with an amount above
\* total_deposited - total_withdrawn aborts with E_TREASURY_INSUFFICIENT and
\* leaves the treasury unchanged; so total_withdrawn <= total_deposited for
\* every organization in every reachable state, and neither total ever
\* decreases.
C30_WithdrawalCovered ==
    \A a \in Registered :
        /\ organizations[a].treasury.total_withdrawn <=
              organizations[a].treasury.total_deposited
        /\ \A amount \in Amounts :
              amount > Available(a) =>
                  record_withdrawal(organizations, a, amount, a) =
                      [res |-> E_TREASURY_INSUFFICIENT, organizations |-> organizations]

C30_TotalsStep ==
    \A a \in Registered :
        /\ organizations'[a].treasury.total_deposited >=
              organizations[a].treasury.total_deposited
        /\ organizations'[a].treasury.total_withdrawn >=
              organizations[a].treasury.total_withdrawn

C30_WithdrawalWithinDeposits ==
    /\ []C30_WithdrawalCovered
    /\ [][C30_TotalsStep]_vars

\* Everything deposited has been withdrawn, in two rounds.
C30_Witness ==
    \E a \in Registered :
        /\ organizations[a].treasury.spend_limit = 1
        /\ organizations[a].treasury.total_deposited = 2
        /\ organizations[a].treasury.total_withdrawn = 2

\* Every call that can be made in the current state, as
\* <<operation, whether it succeeds, the events it emits>>.
C27_WalletCalls ==
    {<<"create_wallet", TRUE, create_wallet_events(o, g)>> : o \in Addr, g \in Orgs}
    \cup {<<"deposit", deposit(wallets[w], a).res = "ok", deposit_events(wallets[w], a)>> :
              w \in Wallets, a \in Amounts}
    \cup {<<"withdraw", withdraw(wallets[w], a, c).res = "ok",
            withdraw_events(wallets[w], a, c)>> :
              w \in Wallets, a \in Amounts, c \in Addr}
    \cup {<<"transfer_funds",
            transfer_funds(wallets[x[1]], wallets[x[2]], a, c).res = "ok",
            transfer_funds_events(wallets[x[1]], wallets[x[2]], a, c)>> :
              x \in {y \in Wallets \X Wallets : y[1] # y[2]}, a \in Amounts, c \in Addr}

C27_PayrollCalls ==
    {<<"create_payroll_batch", create_payroll_batch(g, a).res = "ok",
       create_payroll_batch_events(g, a)>> : g \in Orgs, a \in Amounts}
    \cup {<<"add_to_batch", add_to_batch(batches[b], e, a).res = "ok",
            add_to_batch_events(batches[b], e, a)>> :
              b \in OpenBatches, e \in Addr, a \in Amounts}
    \cup {<<"execute_payroll_single",
            execute_payroll_single(registry, batches[b], wallets[w], x).res = "ok",
            execute_payroll_single_events(registry, batches[b], wallets[w], x)>> :
              b \in OpenBatches, w \in Wallets, x \in Admins}
    \cup {<<"batch_execute_payroll",
            batch_execute_payroll(batches[b], wallets[w]).res = "ok",
            batch_execute_payroll_events(batches[b], wallets[w])>> :
              b \in OpenBatches, w \in Wallets}
    \cup {<<"close_payroll_batch", close_payroll_batch(batches[b]).res = "ok",
            close_payroll_batch_events(batches[b])>> : b \in OpenBatches}

C27_PoolCalls ==
    {<<"init_pool", init_pool(d).res = "ok", init_pool_events(d)>> : d \in Amounts}
    \cup {<<"pool_deposit", pool_deposit(pool, a, c).res = "ok",
            pool_deposit_events(pool, a, c)>> :
              a \in (IF pool.exists THEN Amounts ELSE {}), c \in Commitments}
    \cup {<<"pool_withdraw", pool_withdraw(pool, n, "e1", pr, r).res = "ok",
            pool_withdraw_events(pool, n, "e1", pr, r)>> :
              n \in (IF pool.exists THEN Nullifiers ELSE {}), pr \in Proofs, r \in Roots}
    \cup {<<"update_merkle_root", TRUE, update_merkle_root_events(pool, r)>> :
              r \in (IF pool.exists THEN Roots ELSE {})}

C27_RegistryCalls ==
    {<<"register_organization", register_organization(organizations, c, l, s).res = "ok",
       register_organization_events(organizations, c, l, s)>> :
          c \in Caps, l \in Limits, s \in OrgAdmins}
    \cup {<<"add_employee",
            add_employee(organizations, o, e, "w1", "Engineer", s).res = "ok",
            add_employee_events(organizations, o, e, "w1", "Engineer", s)>> :
              o \in OrgAdmins, e \in Addr, s \in OrgAdmins}
    \cup {<<"update_employee_status",
            update_employee_status(organizations, o, e, f, s).res = "ok",
            update_employee_status_events(organizations, o, e, f, s)>> :
              o \in OrgAdmins, e \in Addr, f \in BOOLEAN, s \in OrgAdmins}
    \cup {<<"record_deposit", record_deposit(organizations, o, a, s).res = "ok",
            record_deposit_events(organizations, o, a, s)>> :
              o \in OrgAdmins, a \in Amounts, s \in OrgAdmins}
    \cup {<<"record_withdrawal", record_withdrawal(organizations, o, a, s).res = "ok",
            record_withdrawal_events(organizations, o, a, s)>> :
              o \in OrgAdmins, a \in Amounts, s \in OrgAdmins}

C27_Calls == C27_WalletCalls \cup C27_PayrollCalls \cup C27_PoolCalls \cup C27_RegistryCalls

C27_Silent ==
    {"add_to_batch", "batch_execute_payroll", "close_payroll_batch", "init_pool"}

C31_CheckOrder ==
    pool.exists =>
        \A n \in Nullifiers, recipient \in Addr, proof \in Proofs, root \in Roots :
            LET r == pool_withdraw(pool, n, recipient, proof, root) IN
            r.res = IF n \in pool.nullifiers THEN E_NULLIFIER_SPENT
                    ELSE IF root # pool.merkle_root THEN E_MERKLE_ROOT_MISMATCH
                    ELSE IF ~verify_proof(proof, n, root) THEN E_INVALID_PROOF
                    ELSE IF pool.balance < pool.denomination
                      THEN E_INSUFFICIENT_POOL_BALANCE
                    ELSE "ok"

\* A pool below its denomination that knows a spent and an unspent
\* nullifier: a withdraw fails on several checks at once.
C31_Witness ==
    /\ pool.exists
    /\ pool.balance < pool.denomination
    /\ pool.nullifiers # {}
    /\ Nullifiers \ pool.nullifiers # {}

\* C32: once update_merkle_root has replaced the root R1 by R2 # R1, a
\* withdraw that still claims R1 with an unspent nullifier aborts with
\* E_MERKLE_ROOT_MISMATCH and leaves the pool as it is (nullifier unspent,
\* balance unchanged), and a withdraw with the same nullifier that claims
\* R2 succeeds afterwards if the pool holds a denomination.
C32_RaceStep ==
    (pool.exists /\ pool'.merkle_root # pool.merkle_root) =>
        \A n \in Nullifiers \ pool'.nullifiers, recipient \in Addr, proof \in Proofs :
            LET stale == pool_withdraw(pool', n, recipient, proof, pool.merkle_root)
                retry == pool_withdraw(stale.pool, n, recipient, proof, pool'.merkle_root)
            IN /\ stale = [res |-> E_MERKLE_ROOT_MISMATCH, pool |-> pool', out |-> 0]
               /\ n \notin stale.pool.nullifiers
               /\ stale.pool.balance = pool'.balance
               /\ pool'.balance >= pool'.denomination =>
                      /\ retry.res = "ok"
                      /\ retry.out = pool'.denomination
                      /\ n \in retry.pool.nullifiers

C32_StaleRootWithdrawFails == [][C32_RaceStep]_vars

\* The root of a funded pool has been replaced and no nullifier has been
\* spent: a withdraw prepared against the former root is the racing one.
C32_Witness ==
    /\ pool.exists
    /\ pool.merkle_root = "r1"
    /\ pool.commitments # {}
    /\ pool.nullifiers = {}
    /\ pool.balance >= pool.denomination

\* C33: init_pool creates a pool with the empty root, no commitment, no
\* nullifier, balance 0 and totals 0; on a pool whose balance is below the
\* denomination a withdraw with an unspent nullifier that claims the current
\* root aborts with E_INSUFFICIENT_POOL_BALANCE: the nullifier is not marked
\* spent and total_withdrawals is unchanged.
C33_EmptyPoolCannotPay ==
    (pool.exists /\ pool.balance < pool.denomination) =>
        \A n \in Nullifiers \ pool.nullifiers, recipient \in Addr, proof \in Proofs :
            LET r == pool_withdraw(pool, n, recipient, proof, pool.merkle_root) IN
            /\ r.res = E_INSUFFICIENT_POOL_BALANCE
            /\ n \notin r.pool.nullifiers
            /\ r.pool.total_withdrawals = pool.total_withdrawals
            /\ r.pool = pool
            /\ r.out = 0

C33_InitStep ==
    (~pool.exists /\ pool'.exists) =>
        /\ pool'.merkle_root = EmptyRoot
        /\ pool'.commitments = {} /\ pool'.nullifiers = {}
        /\ pool'.balance = 0
        /\ pool'.total_deposits = 0 /\ pool'.total_withdrawals = 0
        /\ pool'.denomination > 0

C33_FreshPool == []C33_EmptyPoolCannotPay /\ [][C33_InitStep]_vars

\* The pool as init_pool leaves it: nothing deposited, root still empty.
C33_Witness ==
    /\ pool.exists
    /\ pool.merkle_root = EmptyRoot
    /\ pool.commitments = {}
    /\ pool.balance = 0
    /\ pool.balance < pool.denomination

\* C34: batch_execute_payroll followed by a deposit of the returned coin
\* into the employee's wallet leaves the batch and the wallet exactly as one
\* execute_payroll_single for the same employee does, and fails when it
\* fails; only execute_payroll_single appends a payroll run, the other path
\* leaves the run history alone.
C34_SameBatchAndWallet ==
    \A b \in OpenBatches, w \in Wallets, executor \in Admins :
        LET s == execute_payroll_single(registry, batches[b], wallets[w], executor)
            r == batch_execute_payroll(batches[b], wallets[w])
            d == deposit(wallets[w], r.out)
        IN /\ (s.res = "ok") <=> (r.res = "ok" /\ d.res = "ok")
           /\ s.res = "ok" =>
                 /\ s.batch = r.batch
                 /\ s.wallet = d.wallet
                 /\ s.registry # registry
                 /\ s.registry.next_run_id = registry.next_run_id + 1
                 /\ DOMAIN s.registry.payroll_runs =
                        DOMAIN registry.payroll_runs \cup {registry.next_run_id}
           /\ s.res # "ok" =>
                 /\ r.res = s.res
                 /\ r.batch = batches[b] /\ s.batch = batches[b]
                 /\ s.wallet = wallets[w]
                 /\ s.registry = registry

C34_HistoryStep ==
    /\ \A b \in BatchIds, w \in WalletIds : BatchExecute(b, w) => registry' = registry
    /\ \A w \in WalletIds, amount \in Amounts : Deposit(w, amount) => registry' = registry
    /\ \A b \in BatchIds, w \in WalletIds, executor \in Admins :
          (ExecuteSingle(b, w, executor) /\ wallets'[w] # wallets[w]) =>
              registry'.next_run_id = registry.next_run_id + 1

C34_TwoPathsAgree == []C34_SameBatchAndWallet /\ [][C34_HistoryStep]_vars

\* An employee has been paid through batch_execute_payroll and the wallet
\* has been credited with that amount by a deposit: no run is recorded.
C34_Witness ==
    \E b \in BatchIds, w \in WalletIds :
        /\ wallets[w].exists
        /\ wallets[w].owner \in batchHist[b].consumed
        /\ batchHist[b].paid > 0
        /\ wallets[w].total_deposited = batchHist[b].paid
        /\ registry.next_run_id = 0

\* C35: update_employee_status sent by the admin for an employee of the
\* roster sets the employee's active flag to the given value; employee_count,
\* the roster membership, the wallet and the role of the profile, the other
\* profiles, the treasury and the other organizations are unchanged.  For an
\* employee who is not in the roster it aborts with E_EMPLOYEE_MISSING and
\* changes nothing.  An employee who has just been added is active.
C35_StatusOnly ==
    \A o \in Registered, e \in Addr, f \in BOOLEAN :
        LET org == organizations[o]
            r == update_employee_status(organizations, o, e, f, org.admin)
            org1 == r.organizations[o]
        IN IF e \in DOMAIN org.employees
           THEN /\ r.res = "ok"
                /\ DOMAIN org1.employees = DOMAIN org.employees
                /\ org1.employees[e].active = f
                /\ org1.employees[e].wallet = org.employees[e].wallet
                /\ org1.employees[e].role = org.employees[e].role
                /\ \A e2 \in DOMAIN org.employees \ {e} :
                       org1.employees[e2] = org.employees[e2]
                /\ org1.employee_count = org.employee_count
                /\ org1.employee_cap = org.employee_cap
                /\ org1.admin = org.admin
                /\ org1.treasury = org.treasury
                /\ \A o2 \in OrgAdmins \ {o} : r.organizations[o2] = organizations[o2]
           ELSE /\ r.res = E_EMPLOYEE_MISSING
                /\ r.organizations = organizations

C35_StatusStep ==
    \A o \in OrgAdmins, e \in Addr :
        /\ (e \notin DOMAIN organizations[o].employees
               /\ e \in DOMAIN organizations'[o].employees) =>
              organizations'[o].employees[e].active
        /\ (e \in DOMAIN organizations[o].employees
               /\ e \in DOMAIN organizations'[o].employees
               /\ organizations'[o].employees[e].active
                    # organizations[o].employees[e].active) =>
              /\ organizations'[o].employee_count = organizations[o].employee_count
              /\ organizations'[o].treasury = organizations[o].treasury
              /\ DOMAIN organizations'[o].employees = DOMAIN organizations[o].employees

C35_UpdateEmployeeStatus == []C35_StatusOnly /\ [][C35_StatusStep]_vars

\* An organization with two employees, one of them deactivated, and a
\* treasury that has seen a deposit.
C35_Witness ==
    \E o \in Registered :
        /\ organizations[o].employee_count = 2
        /\ \E e \in DOMAIN organizations[o].employees :
               ~organizations[o].employees[e].active
        /\ \E e \in DOMAIN organizations[o].employees :
               organizations[o].employees[e].active
        /\ organizations[o].treasury.total_deposited > 0

\* C36: add_employee reports the first failing check in the order
\* organization exists, caller is the admin, capacity, duplicate; on an
\* organization with employee_count = employee_cap a call by the admin
\* aborts with E_EMPLOYEE_CAP whether or not the employee is in the roster.
C36_AddEmployeeCheckOrder ==
    \A o \in OrgAdmins, e \in Addr, caller \in OrgAdmins :
        LET org == organizations[o]
            r == add_employee(organizations, o, e, "w1", "Engineer", caller)
        IN /\ r.res = IF ~org.exists THEN E_ORG_MISSING
                      ELSE IF caller # org.admin THEN E_NOT_ADMIN
                      ELSE IF org.employee_count >= org.employee_cap THEN E_EMPLOYEE_CAP
                      ELSE IF e \in DOMAIN org.employees THEN E_EMPLOYEE_EXISTS
                      ELSE "ok"
           /\ r.res # "ok" => r.organizations = organizations
           /\ (org.exists /\ caller = org.admin
                 /\ org.employee_count = org.employee_cap) => r.res = E_EMPLOYEE_CAP

\* An organization at its cap whose roster holds one of the two employees,
\* while the other organization key is not registered.
C36_Witness ==
    /\ \E o \in Registered :
          /\ organizations[o].employee_count = organizations[o].employee_cap
          /\ DOMAIN organizations[o].employees # {}
          /\ Addr \ DOMAIN organizations[o].employees # {}
    /\ OrgAdmins \ Registered # {}

PendingAmount(b) == SumOver(batches[b].recipients, DOMAIN batches[b].recipients)

\* C38: total_amount of a batch starts at 0, grows by the amount of every
\* add_to_batch call that inserts a recipient and is not decreased by a
\* payout: in every reachable state of a batch total_amount is the sum of
\* the pending amounts plus what has been paid out (funding - balance).
C38_TotalIsPendingPlusPaid ==
    \A b \in OpenBatches :
        /\ batches[b].total_amount =
              PendingAmount(b) + (batchHist[b].funding - batches[b].balance)
        /\ batchHist[b].funding - batches[b].balance = batchHist[b].paid

C38_TotalStep ==
    \A b \in BatchIds :
        /\ (~batches[b].open /\ batches'[b].open) => batches'[b].total_amount = 0
        /\ (batches[b].open /\ batches'[b].open) =>
              /\ batches'[b].total_amount >= batches[b].total_amount
              /\ batches'[b].total_amount - batches[b].total_amount =
                    SumOver(batches'[b].recipients,
                            DOMAIN batches'[b].recipients \ DOMAIN batches[b].recipients)
              /\ batches'[b].balance < batches[b].balance =>
                    batches'[b].total_amount = batches[b].total_amount

C38_TotalAmount == []C38_TotalIsPendingPlusPaid /\ [][C38_TotalStep]_vars

\* A batch that has paid one recipient an amount of 2 and holds another one
\* pending.
C38_Witness ==
    \E b \in OpenBatches :
        /\ batchHist[b].paid = 2
        /\ DOMAIN batches[b].recipients # {}
        /\ batches[b].total_amount > batchHist[b].paid

\* C39: in every reachable state of a pool with denomination D,
\* total_deposits is D times the number of recorded commitments,
\* total_withdrawals is D times the number of spent nullifiers, the balance
\* is total_deposits - total_withdrawals, and no more nullifiers are spent
\* than commitments are recorded.
C39_PoolTotals ==
    pool.exists =>
        /\ pool.total_deposits = pool.denomination * Cardinality(pool.commitments)
        /\ pool.total_withdrawals = pool.denomination * Cardinality(pool.nullifiers)
        /\ pool.balance = pool.total_deposits - pool.total_withdrawals
        /\ Cardinality(pool.nullifiers) <= Cardinality(pool.commitments)

\* Two commitments are recorded and one nullifier is spent: the pool holds
\* one denomination.
C39_Witness ==
    /\ pool.exists
    /\ Cardinality(pool.commitments) = 2
    /\ Cardinality(pool.nullifiers) = 1
    /\ pool.total_withdrawals = pool.denomination
    /\ pool.balance = pool.denomination

====
